---- MODULE Spec2Model ----
(***************************************************************************)
(* The reference-counted loading store of react-hook-loading-spinner       *)
(* (src/src/hooks/useLoading.ts): the zustand store with loadingCount,     *)
(* overrideState and localCounters, its three mutating actions, its        *)
(* queries, the events the actions emit on loadingEventTarget, and the     *)
(* per-instance wrapper of the useLoading hook.  The emitter class behind  *)
(* loadingEventTarget (utils/EventEmitter) follows section 4.1 of the      *)
(* specification: on, once, emit and removeAllListeners.                   *)
(*                                                                         *)
(* JavaScript values are encoded as follows.                               *)
(*   - `boolean | null` and `string | undefined` are option values: the    *)
(*     empty sequence is null / undefined, a one-element sequence holds    *)
(*     the value.                                                          *)
(*   - Record<string, number> is a function whose DOMAIN is the set of     *)
(*     keys present in the object.                                         *)
(***************************************************************************)
EXTENDS Integers, Sequences, FiniteSets, TLC

VARIABLES loadingCount, overrideState, localCounters, emitted, lastCall, history,
          eventLog, pending, returned, asyncCalls, episode,
          listeners, nextReg, invoked, raised, firedOnce, delivered, cleared,
          startSurplus, component

vars == <<loadingCount, overrideState, localCounters, emitted, lastCall, history,
          eventLog, pending, returned, asyncCalls, episode,
          listeners, nextReg, invoked, raised, firedOnce, delivered, cleared,
          startSurplus, component>>

(* ---------------------------- bounds ----------------------------------- *)

\* startLoading is not issued once the global counter has reached MaxCount.
MaxCount == 3

\* The store actions invoked since construction are remembered up to this
\* many of them.
MaxHist == 4

\* asyncUseLoading is called at most this many times.
MaxAsyncCalls == 3

\* on and once are called at most this many times in all.
MaxRegistrations == 3

(* ---------------------------- values ----------------------------------- *)

Null == <<>>

Some(v) == <<v>>

\* Identifiers handed out by useId(): distinct non-empty strings.
InstanceIds == {"A", "B"}

\* Arguments of the store's startLoading / stopLoading: instanceId?: string.
\* undefined, the empty string, and the identifiers of the hook instances.
InstanceIdArgs == {Null, Some("")} \cup {Some(k) : k \in InstanceIds}

\* Arguments of overrideLoading: boolean | null.
OverrideArgs == {Null, Some(TRUE), Some(FALSE)}

\* JavaScript truthiness of an optional string: undefined and "" are falsy.
Truthy(instanceId) == instanceId # Null /\ instanceId[1] # ""

\* a ?? b
Nullish(a, b) == IF a # Null THEN a[1] ELSE b

\* Math.max(a, b)
MathMax(a, b) == IF a >= b THEN a ELSE b

\* { ...obj, [key]: value }
Spread(obj, key, value) ==
    [k \in (DOMAIN obj) \cup {key} |-> IF k = key THEN value ELSE obj[k]]

\* obj[key], undefined (Null) when the key is not present
Lookup(obj, key) == IF key \in DOMAIN obj THEN Some(obj[key]) ELSE Null

(* ---------------------------- the store -------------------------------- *)

\* get(): the store's current data.
Get == [loadingCount |-> loadingCount,
        overrideState |-> overrideState,
        localCounters |-> localCounters]

InitialStore == [loadingCount |-> 0, overrideState |-> Null, localCounters |-> <<>>]

\* overrideState || (loadingCount > 0)
isLoading_OrInsteadOfNullish(s) ==
    IF s.overrideState # Null /\ s.overrideState[1] THEN TRUE ELSE s.loadingCount > 0

\* isLoading() { return get().overrideState ?? (get().loadingCount > 0) }
isLoading(s) == Nullish(s.overrideState, s.loadingCount > 0)

isGlobalLoading(s) == isLoading(s)

getLocalCounter(s, instanceId) == Nullish(Lookup(s.localCounters, instanceId), 0)

isLocalLoading(s, instanceId) == Nullish(Lookup(s.localCounters, instanceId), 0) > 0

\* The queries of the store's actions object.
QueryOps == {"isGlobalLoading", "isLocalLoading", "getLocalCounter"}

\* The key's entry is created when it is read: localCounters[key] ??= 0.
Query_CreatesEntry(s, op, instanceId) ==
    [state |-> IF op = "isGlobalLoading" THEN s
               ELSE [s EXCEPT !.localCounters =
                        Spread(@, instanceId[1], getLocalCounter(s, instanceId[1]))],
     emitted |-> <<>>,
     result |-> IF op = "isGlobalLoading" THEN Some(isGlobalLoading(s))
                ELSE IF op = "isLocalLoading"
                     THEN Some(isLocalLoading(s, instanceId[1]))
                     ELSE Some(getLocalCounter(s, instanceId[1]))]

\* A call of one of the queries: the store it leaves, the emit calls it
\* makes and the value it returns.  None of them calls set() or emit().
Query(s, op, instanceId) ==
    [state |-> s,
     emitted |-> <<>>,
     result |-> IF op = "isGlobalLoading" THEN Some(isGlobalLoading(s))
                ELSE IF op = "isLocalLoading"
                     THEN Some(isLocalLoading(s, instanceId[1]))
                     ELSE Some(getLocalCounter(s, instanceId[1]))]

(* --------------------------- the event emitter ------------------------- *)

\* The events of loadingEventTarget: the keys of LoadingEvents.
Events == {"start", "stop", "change"}

\* Handler functions that return normally, and one that throws when called.
Handlers == {"h1", "h2"}

RaisingHandlers == {"bad"}

\* The handlers of the README's event listener example, which append to a
\* log.
LoggingHandlers == {"log"}

Raises(handler) == handler \in RaisingHandlers

\* An emitter with no listener: every event has the empty listener sequence.
NoListeners == [e \in Events |-> <<>>]

\* An entry of a listener sequence: the handler, whether it is one-shot, and
\* the number of the registration call that made it.
Listener(reg, handler, oneShot) == [reg |-> reg, handler |-> handler, once |-> oneShot]

\* The registrations present in the registry l, of any event.
Registered(l) == UNION {{l[e][i].reg : i \in DOMAIN l[e]} : e \in Events}

\* on(eventName, handler): the handler is put in front of the sequence.
on_Prepend(l, eventName, handler, reg) ==
    [l EXCEPT ![eventName] = <<Listener(reg, handler, FALSE)>> \o @]

\* on(eventName, handler): appends the handler to the event's sequence.
on(l, eventName, handler, reg) ==
    [l EXCEPT ![eventName] = Append(@, Listener(reg, handler, FALSE))]

\* once(eventName, handler): as on, with the entry marked one-shot.
once(l, eventName, handler, reg) ==
    [l EXCEPT ![eventName] = Append(@, Listener(reg, handler, TRUE))]

\* removeAllListeners(): only the persistent listeners are cleared.
removeAllListeners_KeepsOnce(l) ==
    [e \in Events |-> SelectSeq(l[e], LAMBDA x : x.once)]

\* removeAllListeners(): only the listeners of `change` are cleared.
removeAllListeners_ChangeOnly(l) == [l EXCEPT !["change"] = <<>>]

\* removeAllListeners(): clears every event's listener sequence.
removeAllListeners(l) == NoListeners

\* The one-shot registrations of l among the handler calls.
OneShots(l, calls) ==
    {r \in {calls[i].reg : i \in DOMAIN calls} :
        \E e \in Events : \E i \in DOMAIN l[e] : l[e][i].reg = r /\ l[e][i].once}

\* A handler call made by emit.
Invocation(entry, eventName, payload) ==
    [reg |-> entry.reg, handler |-> entry.handler, name |-> eventName,
     payload |-> payload]

\* The position in the snapshot of the first handler that throws, 0 if none.
FirstRaising(snapshot) ==
    IF \E i \in DOMAIN snapshot : Raises(snapshot[i].handler)
    THEN CHOOSE i \in DOMAIN snapshot :
            /\ Raises(snapshot[i].handler)
            /\ \A j \in 1..(i - 1) : ~Raises(snapshot[j].handler)
    ELSE 0

\* The outcome of a dispatch pass over snapshot that reaches its first n
\* entries: the registry with the one-shot entries that fired removed, the
\* handler calls made, what emit returns, and whether a handler threw.
Pass(l, eventName, payload, snapshot, n) ==
    LET reached == {snapshot[i].reg : i \in 1..n}
    IN  [listeners |-> [l EXCEPT ![eventName] =
                           SelectSeq(@, LAMBDA x : ~(x.once /\ x.reg \in reached))],
         invoked |-> [i \in 1..n |-> Invocation(snapshot[i], eventName, payload)],
         result |-> Len(snapshot) > 0,
         raised |-> n > 0 /\ Raises(snapshot[n].handler)]

\* The listeners are kept in one list for all events: emit calls them all
\* and removes every one-shot entry.
emit_AllEvents(l, eventName, payload) ==
    LET snapshot == l["change"] \o l["start"] \o l["stop"]
    IN  [listeners |-> [e \in Events |-> SelectSeq(l[e], LAMBDA x : ~x.once)],
         invoked |-> [i \in DOMAIN snapshot |->
                         Invocation(snapshot[i], eventName, payload)],
         result |-> Len(snapshot) > 0,
         raised |-> FALSE]

\* emit returns whether a handler is registered once the pass is over.
emit_ResultAfterPass(l, eventName, payload) ==
    LET snapshot == l[eventName]
        f == FirstRaising(snapshot)
        p == Pass(l, eventName, payload, snapshot, IF f = 0 THEN Len(snapshot) ELSE f)
    IN  [p EXCEPT !.result = Len(p.listeners[eventName]) > 0]

\* emit walks the live sequence by index and splices a one-shot entry out
\* when it has fired: the entry behind it moves up and is passed over.
emit_LiveSplice(l, eventName, payload) ==
    LET snapshot == l[eventName]
        called[k \in DOMAIN snapshot] ==
            IF k = 1 THEN TRUE ELSE ~(called[k - 1] /\ snapshot[k - 1].once)
        reached == {snapshot[k].reg : k \in {j \in DOMAIN snapshot : called[j]}}
        calls == SelectSeq(snapshot, LAMBDA x : x.reg \in reached)
    IN  [listeners |-> [l EXCEPT ![eventName] =
                           SelectSeq(@, LAMBDA x : ~(x.once /\ x.reg \in reached))],
         invoked |-> [i \in DOMAIN calls |-> Invocation(calls[i], eventName, payload)],
         result |-> Len(snapshot) > 0,
         raised |-> FALSE]

\* The one-shot entries stay in the registry after they have fired.
emit_KeepsOnce(l, eventName, payload) ==
    LET snapshot == l[eventName]
        f == FirstRaising(snapshot)
        p == Pass(l, eventName, payload, snapshot, IF f = 0 THEN Len(snapshot) ELSE f)
    IN  [p EXCEPT !.listeners = l]

\* emit(eventName, payload): invokes, in registration order, every handler
\* registered for eventName at call time, removes the one-shot entries as
\* they fire, and returns whether there was a handler (false at once when
\* there is none).  A handler that throws ends the pass: the exception
\* leaves emit.
emit(l, eventName, payload) ==
    LET snapshot == l[eventName]
        f == FirstRaising(snapshot)
    IN  IF snapshot = <<>>
        THEN [listeners |-> l, invoked |-> <<>>, result |-> FALSE, raised |-> FALSE]
        ELSE Pass(l, eventName, payload, snapshot, IF f = 0 THEN Len(snapshot) ELSE f)

(* ---------------------------- the store, continued --------------------- *)

\* loadingEventTarget.emit(name, payload), issued while the store holds s:
\* the call is appended to the calls already made by the running action.
Emit(log, name, payload, s) ==
    Append(log, [name |-> name, payload |-> payload, at |-> s])

ChangePayload(isLoadingNow, isOverride) ==
    Some([isLoading |-> isLoadingNow, isOverrideState |-> isOverride])

\* The result of an action: the store it leaves and the emit calls it made.
Result(s, log) == [state |-> s, emitted |-> log]

\* `start` is emitted whenever the store is loading after the call.
startLoading_AlwaysStart(s, instanceId) ==
    LET s1 == [s EXCEPT !.loadingCount = @ + 1]
        s2 == IF Truthy(instanceId)
              THEN [s1 EXCEPT !.localCounters =
                        Spread(@, instanceId[1],
                               Nullish(Lookup(@, instanceId[1]), 0) + 1)]
              ELSE s1
        newIsLoading == isLoading(s2)
        e1 == IF newIsLoading
              THEN Emit(<<>>, "start", Null, s2)
              ELSE <<>>
    IN  Result(s2, Emit(e1, "change",
                        ChangePayload(newIsLoading, s2.overrideState # Null), s2))

\* `change` is emitted first, `start` after it.
startLoading_ChangeFirst(s, instanceId) ==
    LET prevIsLoading == isLoading(s)
        s1 == [s EXCEPT !.loadingCount = @ + 1]
        s2 == IF Truthy(instanceId)
              THEN [s1 EXCEPT !.localCounters =
                        Spread(@, instanceId[1],
                               Nullish(Lookup(@, instanceId[1]), 0) + 1)]
              ELSE s1
        newIsLoading == isLoading(s2)
        e1 == Emit(<<>>, "change",
                   ChangePayload(newIsLoading, s2.overrideState # Null), s2)
    IN  Result(s2, IF newIsLoading /\ ~prevIsLoading
                   THEN Emit(e1, "start", Null, s2)
                   ELSE e1)

\* The local counters are replaced by an object holding only the caller's
\* key: the spread of the existing counters is missing.
startLoading_NoSpread(s, instanceId) ==
    LET prevIsLoading == isLoading(s)
        s1 == [s EXCEPT !.loadingCount = @ + 1]
        s2 == IF Truthy(instanceId)
              THEN [s1 EXCEPT !.localCounters =
                        Spread(<<>>, instanceId[1],
                               Nullish(Lookup(@, instanceId[1]), 0) + 1)]
              ELSE s1
        newIsLoading == isLoading(s2)
        e1 == IF newIsLoading /\ ~prevIsLoading
              THEN Emit(<<>>, "start", Null, s2)
              ELSE <<>>
    IN  Result(s2, Emit(e1, "change",
                        ChangePayload(newIsLoading, s2.overrideState # Null), s2))

\* The local counter is a flag: set to 1 instead of incremented.
startLoading_LocalFlag(s, instanceId) ==
    LET prevIsLoading == isLoading(s)
        s1 == [s EXCEPT !.loadingCount = @ + 1]
        s2 == IF Truthy(instanceId)
              THEN [s1 EXCEPT !.localCounters = Spread(@, instanceId[1], 1)]
              ELSE s1
        newIsLoading == isLoading(s2)
        e1 == IF newIsLoading /\ ~prevIsLoading
              THEN Emit(<<>>, "start", Null, s2)
              ELSE <<>>
    IN  Result(s2, Emit(e1, "change",
                        ChangePayload(newIsLoading, s2.overrideState # Null), s2))

startLoading(s, instanceId) ==
    LET prevIsLoading == isLoading(s)
        s1 == [s EXCEPT !.loadingCount = @ + 1]
        s2 == IF Truthy(instanceId)
              THEN [s1 EXCEPT !.localCounters =
                        Spread(@, instanceId[1],
                               Nullish(Lookup(@, instanceId[1]), 0) + 1)]
              ELSE s1
        newIsLoading == isLoading(s2)
        e1 == IF newIsLoading /\ ~prevIsLoading
              THEN Emit(<<>>, "start", Null, s2)
              ELSE <<>>
    IN  Result(s2, Emit(e1, "change",
                        ChangePayload(newIsLoading, s2.overrideState # Null), s2))

\* The naive global-only counter: the stop is not gated by the caller's count.
stopLoading_GlobalOnly(s, instanceId) ==
    LET prevIsLoading == isLoading(s)
        s1 == [s EXCEPT !.loadingCount = MathMax(0, @ - 1),
                        !.localCounters =
                            IF Truthy(instanceId) /\ instanceId[1] \in DOMAIN @
                            THEN Spread(@, instanceId[1],
                                        MathMax(0, @[instanceId[1]] - 1))
                            ELSE @]
        newIsLoading == isLoading(s1)
        e1 == IF ~newIsLoading /\ prevIsLoading
              THEN Emit(<<>>, "stop", Null, s1)
              ELSE <<>>
    IN  Result(s1, Emit(e1, "change",
                        ChangePayload(newIsLoading, s1.overrideState # Null), s1))

\* Every keyed stop decrements, with neither the gate nor the clamp.
stopLoading_Unclamped(s, instanceId) ==
    LET prevIsLoading == isLoading(s)
        s1 == IF Truthy(instanceId)
              THEN [s EXCEPT
                      !.loadingCount = @ - 1,
                      !.localCounters =
                          Spread(@, instanceId[1],
                                 Nullish(Lookup(@, instanceId[1]), 0) - 1)]
              ELSE s
        newIsLoading == isLoading(s1)
        e1 == IF ~newIsLoading /\ prevIsLoading
              THEN Emit(<<>>, "stop", Null, s1)
              ELSE <<>>
    IN  Result(s1, Emit(e1, "change",
                        ChangePayload(newIsLoading, s1.overrideState # Null), s1))

\* `change` is emitted only when the call changed the store.
stopLoading_ChangeOnEffect(s, instanceId) ==
    LET prevIsLoading == isLoading(s)
        localCounter == IF Truthy(instanceId)
                        THEN Nullish(Lookup(s.localCounters, instanceId[1]), 0)
                        ELSE 0
        s1 == IF Truthy(instanceId) /\ localCounter > 0
              THEN [s EXCEPT
                      !.loadingCount = MathMax(0, @ - 1),
                      !.localCounters =
                          Spread(@, instanceId[1],
                                 MathMax(0, @[instanceId[1]] - 1))]
              ELSE s
        newIsLoading == isLoading(s1)
        e1 == IF ~newIsLoading /\ prevIsLoading
              THEN Emit(<<>>, "stop", Null, s1)
              ELSE <<>>
    IN  Result(s1, IF s1 # s
                   THEN Emit(e1, "change",
                             ChangePayload(newIsLoading, s1.overrideState # Null), s1)
                   ELSE e1)

\* A stop without a key is a direct global stop: it decrements the shared
\* counter; a keyed stop is gated by the key's local counter.
stopLoading_UnkeyedDecrements(s, instanceId) ==
    LET prevIsLoading == isLoading(s)
        localCounter == IF Truthy(instanceId)
                        THEN Nullish(Lookup(s.localCounters, instanceId[1]), 0)
                        ELSE 0
        s1 == IF Truthy(instanceId) /\ localCounter > 0
              THEN [s EXCEPT
                      !.loadingCount = MathMax(0, @ - 1),
                      !.localCounters =
                          Spread(@, instanceId[1],
                                 MathMax(0, @[instanceId[1]] - 1))]
              ELSE IF ~Truthy(instanceId)
                   THEN [s EXCEPT !.loadingCount = MathMax(0, @ - 1)]
                   ELSE s
        newIsLoading == isLoading(s1)
        e1 == IF ~newIsLoading /\ prevIsLoading
              THEN Emit(<<>>, "stop", Null, s1)
              ELSE <<>>
    IN  Result(s1, Emit(e1, "change",
                        ChangePayload(newIsLoading, s1.overrideState # Null), s1))

\* `stop` is emitted by every stop made while loading: !newIsLoading is
\* not tested.
stopLoading_StopWhileLoading(s, instanceId) ==
    LET prevIsLoading == isLoading(s)
        localCounter == IF Truthy(instanceId)
                        THEN Nullish(Lookup(s.localCounters, instanceId[1]), 0)
                        ELSE 0
        s1 == IF Truthy(instanceId) /\ localCounter > 0
              THEN [s EXCEPT
                      !.loadingCount = MathMax(0, @ - 1),
                      !.localCounters =
                          Spread(@, instanceId[1],
                                 MathMax(0, @[instanceId[1]] - 1))]
              ELSE s
        newIsLoading == isLoading(s1)
        e1 == IF prevIsLoading
              THEN Emit(<<>>, "stop", Null, s1)
              ELSE <<>>
    IN  Result(s1, Emit(e1, "change",
                        ChangePayload(newIsLoading, s1.overrideState # Null), s1))

\* The entry of a key is deleted when its counter returns to 0.
stopLoading_Evicts(s, instanceId) ==
    LET prevIsLoading == isLoading(s)
        localCounter == IF Truthy(instanceId)
                        THEN Nullish(Lookup(s.localCounters, instanceId[1]), 0)
                        ELSE 0
        s1 == IF Truthy(instanceId) /\ localCounter > 0
              THEN [s EXCEPT
                      !.loadingCount = MathMax(0, @ - 1),
                      !.localCounters =
                          IF localCounter = 1
                          THEN [k \in (DOMAIN @) \ {instanceId[1]} |-> @[k]]
                          ELSE Spread(@, instanceId[1],
                                      MathMax(0, @[instanceId[1]] - 1))]
              ELSE s
        newIsLoading == isLoading(s1)
        e1 == IF ~newIsLoading /\ prevIsLoading
              THEN Emit(<<>>, "stop", Null, s1)
              ELSE <<>>
    IN  Result(s1, Emit(e1, "change",
                        ChangePayload(newIsLoading, s1.overrideState # Null), s1))

stopLoading(s, instanceId) ==
    LET prevIsLoading == isLoading(s)
        localCounter == IF Truthy(instanceId)
                        THEN Nullish(Lookup(s.localCounters, instanceId[1]), 0)
                        ELSE 0
        s1 == IF Truthy(instanceId) /\ localCounter > 0
              THEN [s EXCEPT
                      !.loadingCount = MathMax(0, @ - 1),
                      !.localCounters =
                          Spread(@, instanceId[1],
                                 MathMax(0, @[instanceId[1]] - 1))]
              ELSE s
        newIsLoading == isLoading(s1)
        e1 == IF ~newIsLoading /\ prevIsLoading
              THEN Emit(<<>>, "stop", Null, s1)
              ELSE <<>>
    IN  Result(s1, Emit(e1, "change",
                        ChangePayload(newIsLoading, s1.overrideState # Null), s1))

\* The payload reports the derived boolean captured before the update.
overrideLoading_PayloadPrev(s, state) ==
    LET prevIsLoading == isLoading(s)
        s1 == [s EXCEPT !.overrideState = state]
        newIsLoading == isLoading(s1)
        e1 == IF newIsLoading /\ ~prevIsLoading
              THEN Emit(<<>>, "start", Null, s1)
              ELSE IF ~newIsLoading /\ prevIsLoading
                   THEN Emit(<<>>, "stop", Null, s1)
                   ELSE <<>>
    IN  Result(s1, Emit(e1, "change",
                        ChangePayload(prevIsLoading, state # Null), s1))

\* set({ overrideState: state || null }): false is stored as null.
overrideLoading_FalsyIsNull(s, state) ==
    LET prevIsLoading == isLoading(s)
        s1 == [s EXCEPT !.overrideState =
                   IF state # Null /\ state[1] THEN state ELSE Null]
        newIsLoading == isLoading(s1)
        e1 == IF newIsLoading /\ ~prevIsLoading
              THEN Emit(<<>>, "start", Null, s1)
              ELSE IF ~newIsLoading /\ prevIsLoading
                   THEN Emit(<<>>, "stop", Null, s1)
                   ELSE <<>>
    IN  Result(s1, Emit(e1, "change",
                        ChangePayload(newIsLoading, state # Null), s1))

\* Clearing the override also resets the counters.
overrideLoading_ResetsCounters(s, state) ==
    LET prevIsLoading == isLoading(s)
        s1 == IF state = Null
              THEN [InitialStore EXCEPT !.overrideState = state]
              ELSE [s EXCEPT !.overrideState = state]
        newIsLoading == isLoading(s1)
        e1 == IF newIsLoading /\ ~prevIsLoading
              THEN Emit(<<>>, "start", Null, s1)
              ELSE IF ~newIsLoading /\ prevIsLoading
                   THEN Emit(<<>>, "stop", Null, s1)
                   ELSE <<>>
    IN  Result(s1, Emit(e1, "change",
                        ChangePayload(newIsLoading, state # Null), s1))

overrideLoading(s, state) ==
    LET prevIsLoading == isLoading(s)
        s1 == [s EXCEPT !.overrideState = state]
        newIsLoading == isLoading(s1)
        e1 == IF newIsLoading /\ ~prevIsLoading
              THEN Emit(<<>>, "start", Null, s1)
              ELSE IF ~newIsLoading /\ prevIsLoading
                   THEN Emit(<<>>, "stop", Null, s1)
                   ELSE <<>>
    IN  Result(s1, Emit(e1, "change",
                        ChangePayload(newIsLoading, state # Null), s1))

(* ------------------------ the useLoading wrapper ----------------------- *)

\* The wrapper starts only when its instance is not loading yet.
localStartLoading_OnlyIfIdle(s, instanceId) ==
    IF isLocalLoading(s, instanceId)
    THEN Result(s, <<>>)
    ELSE startLoading(s, Some(instanceId))

\* actions.startLoading(): the wrapper does not pass its instance id.
localStartLoading_NoKey(s, instanceId) == startLoading(s, Null)

localStartLoading(s, instanceId) == startLoading(s, Some(instanceId))

\* The wrapper forwards every stop to the store.
localStopLoading_Unguarded(s, instanceId) == stopLoading(s, Some(instanceId))

\* localStopLoading(): actions.stopLoading(instanceId) is called only when
\* actions.isLocalLoading(instanceId) holds.
localStopLoading(s, instanceId) ==
    IF isLocalLoading(s, instanceId)
    THEN stopLoading(s, Some(instanceId))
    ELSE Result(s, <<>>)

\* How a promise settles: fulfilled with a value or rejected with a reason.
Outcomes == {[status |-> "fulfilled", value |-> "data"],
             [status |-> "rejected", value |-> "error"]}

\* asyncUseLoading(asyncFunction) up to its await: the function body runs
\* synchronously, calls localStartLoading() and suspends on the promise.
asyncUseLoading(s, instanceId) == localStartLoading(s, instanceId)

\* The stop is made after the await instead of in a finally block: a
\* rejection leaves the function before it.
asyncUseLoadingSettled_NoFinally(s, instanceId, outcome) ==
    LET r == IF outcome.status = "fulfilled"
             THEN localStopLoading(s, instanceId)
             ELSE Result(s, <<>>)
    IN  [state |-> r.state, emitted |-> r.emitted, result |-> outcome]

\* The rejection is caught and the function returns undefined.
asyncUseLoadingSettled_Swallow(s, instanceId, outcome) ==
    LET r == localStopLoading(s, instanceId)
    IN  [state |-> r.state, emitted |-> r.emitted,
         result |-> IF outcome.status = "fulfilled"
                    THEN outcome
                    ELSE [status |-> "fulfilled", value |-> "undefined"]]

\* asyncUseLoading from its await on, once the promise has settled with
\* outcome: try { return await asyncFunction } finally { localStopLoading() }.
\* The finally block runs on both outcomes and then the function returns the
\* value or rethrows the reason.
asyncUseLoadingSettled(s, instanceId, outcome) ==
    LET r == localStopLoading(s, instanceId)
    IN  [state |-> r.state, emitted |-> r.emitted, result |-> outcome]

(* ------------------------ the Loading component ----------------------- *)

\* The instance id that useId() gives the Loading component; the other
\* identifiers belong to other components.
LoadingId == "A"

\* The component before its first render: phase says what React does next
\* with it, isLoading is the prop of its latest render, and captured is the
\* isLoading that the cleanup of its latest effect run has closed over.
NotMounted == [phase |-> "unmounted", isLoading |-> FALSE, captured |-> FALSE]

\* The body of the effect: if (isLoading) startLoading() else stopLoading().
LoadingEffect(s, instanceId, isLoadingProp) ==
    IF isLoadingProp
    THEN localStartLoading(s, instanceId)
    ELSE localStopLoading(s, instanceId)

\* The effect returns no cleanup function.
LoadingCleanup_Missing(s, instanceId, isLoadingProp) == Result(s, <<>>)

\* The cleanup the effect returns: if (isLoading) stopLoading(), with the
\* isLoading of the render that ran the effect.
LoadingCleanup(s, instanceId, isLoadingProp) ==
    IF isLoadingProp
    THEN localStopLoading(s, instanceId)
    ELSE Result(s, <<>>)

(* ---------------------------- bookkeeping ------------------------------ *)

Call(op, key, state) == [op |-> op, key |-> key, state |-> state]

NoCall == Call("none", Null, Null)

\* The store actions a call invokes, from the store s it is made in: a store
\* action is itself, the wrapper's start is a keyed startLoading, and the
\* wrapper's stop is a keyed stopLoading when the instance is loading and
\* nothing otherwise; asyncUseLoading makes the wrapper's start when called
\* and the wrapper's stop when its promise has settled; a query invokes no
\* store action.  The effect of the Loading component makes the wrapper's
\* start or stop as its prop says, its cleanup the wrapper's stop when the
\* prop was true, and rendering and unmounting make no call themselves.
StoreCalls(s, call) ==
    IF call.op \in QueryOps \cup {"render", "unmount"} THEN <<>>
    ELSE IF call.op \in {"localStartLoading", "asyncUseLoading"}
                \/ (call.op = "effect" /\ call.state = Some(TRUE))
    THEN <<Call("startLoading", call.key, Null)>>
    ELSE IF call.op \in {"localStopLoading", "asyncSettled"}
                \/ (call.op = "effect" /\ call.state = Some(FALSE))
                \/ (call.op = "cleanup" /\ call.state = Some(TRUE))
         THEN IF isLocalLoading(s, call.key[1])
              THEN <<Call("stopLoading", call.key, Null)>>
              ELSE <<>>
         ELSE IF call.op = "cleanup" THEN <<>>
         ELSE <<call>>

(* ------------------------ re-entrant listeners ------------------------- *)

\* Handlers that call a mutating operation of the store when invoked.
ReentrantHandlers ==
    {"callsStartLoading", "callsStopLoading", "callsOverrideTrue",
     "callsOverrideFalse", "callsOverrideNull"}

\* The call such a handler makes.
NestedCall(handler) ==
    CASE handler = "callsStartLoading" -> Call("startLoading", Some("A"), Null)
      [] handler = "callsStopLoading" -> Call("stopLoading", Some("A"), Null)
      [] handler = "callsOverrideTrue" -> Call("overrideLoading", Null, Some(TRUE))
      [] handler = "callsOverrideFalse" -> Call("overrideLoading", Null, Some(FALSE))
      [] handler = "callsOverrideNull" -> Call("overrideLoading", Null, Null)

\* A store action run from the store s with no listener that calls back.
Run(s, call) ==
    IF call.op = "startLoading" THEN startLoading(s, call.key)
    ELSE IF call.op = "stopLoading" THEN stopLoading(s, call.key)
    ELSE overrideLoading(s, call.state)

\* What loadingEventTarget.emit(name, ...) does to the store while it holds
\* s: emit calls the handlers before it returns, so a handler registered for
\* name that calls a store action runs that action to its end, with the emit
\* calls it makes.  At most one such handler is registered.
React(l, name, s) ==
    LET callers == SelectSeq(l[name], LAMBDA x : x.handler \in ReentrantHandlers)
    IN  IF callers = <<>>
        THEN Result(s, <<>>)
        ELSE Run(s, NestedCall(callers[1].handler))

\* The derived boolean is read again when `change` is emitted.
startLoadingWith_FreshPayload(s, instanceId, l) ==
    LET prevIsLoading == isLoading(s)
        s1 == [s EXCEPT !.loadingCount = @ + 1]
        s2 == IF Truthy(instanceId)
              THEN [s1 EXCEPT !.localCounters =
                        Spread(@, instanceId[1],
                               Nullish(Lookup(@, instanceId[1]), 0) + 1)]
              ELSE s1
        newIsLoading == isLoading(s2)
        r1 == IF newIsLoading /\ ~prevIsLoading
              THEN LET n == React(l, "start", s2)
                   IN  Result(n.state, Emit(<<>>, "start", Null, s2) \o n.emitted)
              ELSE Result(s2, <<>>)
        s3 == r1.state
    IN  Result(s3, Emit(r1.emitted, "change",
                        ChangePayload(isLoading(s3), s3.overrideState # Null), s3))

\* startLoading with the listeners l registered on loadingEventTarget:
\* newIsLoading is read once, before emit('start'), and get().overrideState
\* is read when `change` is emitted, after the handlers of `start` have run.
startLoadingWith(s, instanceId, l) ==
    LET prevIsLoading == isLoading(s)
        s1 == [s EXCEPT !.loadingCount = @ + 1]
        s2 == IF Truthy(instanceId)
              THEN [s1 EXCEPT !.localCounters =
                        Spread(@, instanceId[1],
                               Nullish(Lookup(@, instanceId[1]), 0) + 1)]
              ELSE s1
        newIsLoading == isLoading(s2)
        r1 == IF newIsLoading /\ ~prevIsLoading
              THEN LET n == React(l, "start", s2)
                   IN  Result(n.state, Emit(<<>>, "start", Null, s2) \o n.emitted)
              ELSE Result(s2, <<>>)
        s3 == r1.state
    IN  Result(s3, Emit(r1.emitted, "change",
                        ChangePayload(newIsLoading, s3.overrideState # Null), s3))

\* stopLoading with the listeners l registered on loadingEventTarget.
stopLoadingWith(s, instanceId, l) ==
    LET prevIsLoading == isLoading(s)
        localCounter == IF Truthy(instanceId)
                        THEN Nullish(Lookup(s.localCounters, instanceId[1]), 0)
                        ELSE 0
        s1 == IF Truthy(instanceId) /\ localCounter > 0
              THEN [s EXCEPT
                      !.loadingCount = MathMax(0, @ - 1),
                      !.localCounters =
                          Spread(@, instanceId[1],
                                 MathMax(0, @[instanceId[1]] - 1))]
              ELSE s
        newIsLoading == isLoading(s1)
        r1 == IF ~newIsLoading /\ prevIsLoading
              THEN LET n == React(l, "stop", s1)
                   IN  Result(n.state, Emit(<<>>, "stop", Null, s1) \o n.emitted)
              ELSE Result(s1, <<>>)
        s2 == r1.state
    IN  Result(s2, Emit(r1.emitted, "change",
                        ChangePayload(newIsLoading, s2.overrideState # Null), s2))

\* overrideLoading with the listeners l registered on loadingEventTarget:
\* isOverrideState is computed from the argument, not from the store.
overrideLoadingWith(s, state, l) ==
    LET prevIsLoading == isLoading(s)
        s1 == [s EXCEPT !.overrideState = state]
        newIsLoading == isLoading(s1)
        r1 == IF newIsLoading /\ ~prevIsLoading
              THEN LET n == React(l, "start", s1)
                   IN  Result(n.state, Emit(<<>>, "start", Null, s1) \o n.emitted)
              ELSE IF ~newIsLoading /\ prevIsLoading
                   THEN LET n == React(l, "stop", s1)
                        IN  Result(n.state, Emit(<<>>, "stop", Null, s1) \o n.emitted)
                   ELSE Result(s1, <<>>)
        s2 == r1.state
    IN  Result(s2, Emit(r1.emitted, "change",
                        ChangePayload(newIsLoading, state # Null), s2))

(* ---------------------------- bookkeeping, continued ------------------- *)

\* The history once more than MaxHist store actions have been invoked, or
\* when the store actions are not being remembered.
Lost == <<Call("lost", Null, Null)>>

Remember(h, calls) ==
    IF calls = <<>> THEN h
    ELSE IF h = Lost \/ Len(h) + Len(calls) > MaxHist THEN Lost
    ELSE h \o calls

\* How many of the emit calls in log are for the event name.
CountOf(log, name) == Cardinality({i \in DOMAIN log : log[i].name = name})

\* The event names of the emit calls in log, in order.
Names(log) == [i \in DOMAIN log |-> log[i].name]

\* The events of the remembered store actions: eventLog[i] holds the names
\* of the events that history[i] emitted.
RememberEvents(h, calls, log, names) ==
    IF calls = <<>> THEN log
    ELSE IF Remember(h, calls) = Lost THEN <<>>
    ELSE Append(log, names)

\* An episode of an instance runs from an asyncUseLoading call made while
\* none of its calls is in flight until all of its calls have settled.  It
\* holds the counters as they were just before that first call, whether the
\* instance has made no direct start or stop since (quiet), and whether no
\* other caller has changed the global counter since (alone).  It is kept in
\* the state its last settle produces and forgotten at the next call.
Episode(local, global) ==
    Some([local |-> local, global |-> global, quiet |-> TRUE, alone |-> TRUE])

\* The episodes after a call with key `key` that takes the store from s to t;
\* direct says that the call is a start or stop made by the instance itself.
Disturb(ep, inflight, key, direct, s, t) ==
    [j \in DOMAIN ep |->
        IF ep[j] = Null \/ inflight[j] = 0 THEN Null
        ELSE IF key = Some(j)
             THEN IF direct THEN Some([ep[j][1] EXCEPT !.quiet = FALSE]) ELSE ep[j]
             ELSE IF t.loadingCount # s.loadingCount
                  THEN Some([ep[j][1] EXCEPT !.alone = FALSE])
                  ELSE ep[j]]

\* Each emit call is wrapped in try / catch: an exception of a handler is
\* dropped and the action goes on with its next emit call.
RECURSIVE Dispatch_CatchesErrors(_, _)
Dispatch_CatchesErrors(l, log) ==
    IF log = <<>>
    THEN [listeners |-> l, made |-> <<>>, invoked |-> <<>>, raised |-> FALSE]
    ELSE LET p == emit(l, log[1].name, log[1].payload)
             rest == Dispatch_CatchesErrors(p.listeners, Tail(log))
         IN  [listeners |-> rest.listeners,
              made |-> <<log[1]>> \o rest.made,
              invoked |-> p.invoked \o rest.invoked,
              raised |-> FALSE]

\* The emit calls of an action, made one after the other on the registry l:
\* the registry they leave, the emit calls that were made, the handler calls
\* they made, and whether a handler threw.  An exception leaves the action
\* at once, so the emit calls after it are not made.
RECURSIVE Dispatch(_, _)
Dispatch(l, log) ==
    IF log = <<>>
    THEN [listeners |-> l, made |-> <<>>, invoked |-> <<>>, raised |-> FALSE]
    ELSE LET p == emit(l, log[1].name, log[1].payload)
         IN  IF p.raised
             THEN [listeners |-> p.listeners, made |-> <<log[1]>>,
                   invoked |-> p.invoked, raised |-> TRUE]
             ELSE LET rest == Dispatch(p.listeners, Tail(log))
                  IN  [listeners |-> rest.listeners,
                       made |-> <<log[1]>> \o rest.made,
                       invoked |-> p.invoked \o rest.invoked,
                       raised |-> rest.raised]

\* The `change` handler appends its entry on the next tick: the entry of
\* one action comes after the `start` or `stop` entry of the action that
\* follows it in the same tick.
Deliver_ChangeDeferred(log, n, calls) ==
    LET mine == SelectSeq(calls, LAMBDA c : c.handler \in LoggingHandlers)
        tagged == [i \in DOMAIN mine |-> [call |-> n, name |-> mine[i].name]]
        early == SelectSeq(tagged, LAMBDA c : c.name # "change")
        late == SelectSeq(tagged, LAMBDA c : c.name = "change")
    IN  IF log # <<>> /\ log[Len(log)].name = "change"
        THEN SubSeq(log, 1, Len(log) - 1) \o early \o <<log[Len(log)]>> \o late
        ELSE log \o early \o late

\* The log kept by the handlers of the README's event listener example:
\* each call of one of them appends an entry, here the event with the
\* position in the history of the store action that emitted it.
Deliver(log, n, calls) ==
    LET mine == SelectSeq(calls, LAMBDA c : c.handler \in LoggingHandlers)
    IN  log \o [i \in DOMAIN mine |-> [call |-> n, name |-> mine[i].name]]

\* The effect of one call on the store and on the record of calls: the store
\* is replaced by the call's result, the emit calls of this call replace
\* those of the previous one and are dispatched to the listeners, and the
\* store actions it invoked are added to the history.
Apply(r, call) ==
    \E done \in {r}, calls \in {StoreCalls(Get, call)} :
    \E d \in {Dispatch(listeners, done.emitted)}, h \in {Remember(history, calls)} :
        /\ loadingCount' = done.state.loadingCount
        /\ overrideState' = done.state.overrideState
        /\ localCounters' = done.state.localCounters
        /\ emitted' = d.made
        /\ lastCall' = call
        /\ history' = h
        /\ eventLog' = RememberEvents(history, calls, eventLog, Names(d.made))
        /\ listeners' = d.listeners
        /\ invoked' = d.invoked
        /\ raised' = d.raised
        /\ firedOnce' = firedOnce \cup OneShots(listeners, d.invoked)
        /\ delivered' = IF h = Lost THEN <<>> ELSE Deliver(delivered, Len(h), d.invoked)
        /\ startSurplus' = startSurplus + CountOf(d.made, "start") - CountOf(d.made, "stop")
        /\ UNCHANGED <<nextReg, cleared>>

\* One synchronous call completes; no promise is created or settled.
Complete(r, call) ==
    /\ Apply(r, call)
    /\ episode' = Disturb(episode, pending, call.key, TRUE, Get, r.state)
    /\ UNCHANGED <<pending, returned, asyncCalls, component>>

(* ---------------------------- behaviour -------------------------------- *)

Init ==
    /\ loadingCount = InitialStore.loadingCount
    /\ overrideState = InitialStore.overrideState
    /\ localCounters = InitialStore.localCounters
    /\ emitted = <<>>
    /\ lastCall = NoCall
    /\ history = <<>>
    /\ eventLog = <<>>
    /\ pending = [k \in InstanceIds |-> 0]
    /\ returned = Null
    /\ asyncCalls = 0
    /\ episode = [k \in InstanceIds |-> Null]
    /\ listeners = NoListeners
    /\ nextReg = 1
    /\ invoked = <<>>
    /\ raised = FALSE
    /\ firedOnce = {}
    /\ delivered = <<>>
    /\ cleared = {}
    /\ startSurplus = 0
    /\ component = NotMounted

\* The store after construction, with the store actions not being remembered.
InitUnrecorded ==
    /\ loadingCount = InitialStore.loadingCount
    /\ overrideState = InitialStore.overrideState
    /\ localCounters = InitialStore.localCounters
    /\ emitted = <<>>
    /\ lastCall = NoCall
    /\ history = Lost
    /\ eventLog = <<>>
    /\ pending = [k \in InstanceIds |-> 0]
    /\ returned = Null
    /\ asyncCalls = 0
    /\ episode = [k \in InstanceIds |-> Null]
    /\ listeners = NoListeners
    /\ nextReg = 1
    /\ invoked = <<>>
    /\ raised = FALSE
    /\ firedOnce = {}
    /\ delivered = <<>>
    /\ cleared = {}
    /\ startSurplus = 0
    /\ component = NotMounted

StartLoadingCall ==
    \E instanceId \in InstanceIdArgs :
        /\ loadingCount < MaxCount
        /\ Complete(startLoading(Get, instanceId),
                    Call("startLoading", instanceId, Null))

StopLoadingCall ==
    \E instanceId \in InstanceIdArgs :
        Complete(stopLoading(Get, instanceId),
                 Call("stopLoading", instanceId, Null))

OverrideLoadingCall ==
    \E state \in OverrideArgs :
        Complete(overrideLoading(Get, state),
                 Call("overrideLoading", Null, state))

HookStartLoading ==
    \E instanceId \in InstanceIds :
        /\ loadingCount < MaxCount
        /\ Complete(localStartLoading(Get, instanceId),
                    Call("localStartLoading", Some(instanceId), Null))

HookStopLoading ==
    \E instanceId \in InstanceIds :
        Complete(localStopLoading(Get, instanceId),
                 Call("localStopLoading", Some(instanceId), Null))

Next ==
    \/ StartLoadingCall
    \/ StopLoadingCall
    \/ OverrideLoadingCall
    \/ HookStartLoading
    \/ HookStopLoading

Spec == Init /\ [][Next]_vars

\* The calls a component can make through the object useLoading() returns:
\* its startLoading, its stopLoading and overrideLoading.
NextHook ==
    \/ HookStartLoading
    \/ HookStopLoading
    \/ OverrideLoadingCall

SpecHook == Init /\ [][NextHook]_vars

\* asyncUseLoading(promise) is called by an instance: it starts loading and
\* awaits the promise.
AsyncUseLoadingCall ==
    \E instanceId \in InstanceIds :
        /\ loadingCount < MaxCount
        /\ asyncCalls < MaxAsyncCalls
        /\ Apply(asyncUseLoading(Get, instanceId),
                 Call("asyncUseLoading", Some(instanceId), Null))
        /\ pending' = [pending EXCEPT ![instanceId] = @ + 1]
        /\ asyncCalls' = asyncCalls + 1
        /\ episode' =
               LET ep == Disturb(episode, pending, Some(instanceId), FALSE, Get,
                                 asyncUseLoading(Get, instanceId).state)
               IN  IF pending[instanceId] = 0
                   THEN [ep EXCEPT ![instanceId] =
                            Episode(getLocalCounter(Get, instanceId), loadingCount)]
                   ELSE ep
        /\ UNCHANGED <<returned, component>>

\* A promise awaited by an asyncUseLoading call of the instance settles and
\* the call resumes: it stops loading and returns or rethrows.
PromiseSettles ==
    \E instanceId \in InstanceIds, outcome \in Outcomes :
        /\ pending[instanceId] > 0
        /\ LET r == asyncUseLoadingSettled(Get, instanceId, outcome)
           IN  /\ Apply(r, Call("asyncSettled", Some(instanceId), Null))
               /\ returned' = Some([promise |-> outcome, result |-> r.result])
               /\ episode' = Disturb(episode, pending, Some(instanceId), FALSE,
                                     Get, r.state)
        /\ pending' = [pending EXCEPT ![instanceId] = @ - 1]
        /\ UNCHANGED <<asyncCalls, component>>

\* Instances that call asyncUseLoading and also start and stop directly.
NextAsync ==
    \/ AsyncUseLoadingCall
    \/ PromiseSettles
    \/ HookStartLoading
    \/ HookStopLoading

SpecAsync == Init /\ [][NextAsync]_vars

\* Loading driven by asyncUseLoading calls only.
NextAsyncOnly ==
    \/ AsyncUseLoadingCall
    \/ PromiseSettles

SpecAsyncOnly == Init /\ [][NextAsyncOnly]_vars

\* Every wrapped promise settles: a pending call is resumed eventually.
SpecAsyncFair == SpecAsyncOnly /\ WF_vars(PromiseSettles)

\* One of the queries is called, with the key of an instance where it takes
\* one.
QueryCall ==
    \E op \in QueryOps, k \in InstanceIds :
        LET instanceId == IF op = "isGlobalLoading" THEN Null ELSE Some(k)
            r == Query(Get, op, instanceId)
        IN  /\ Apply(r, Call(op, instanceId, Null))
            /\ returned' = r.result
            /\ UNCHANGED <<pending, asyncCalls, episode, component>>

\* The wrapper's calls, overrides and the queries.
NextQuery ==
    \/ HookStartLoading
    \/ HookStopLoading
    \/ OverrideLoadingCall
    \/ QueryCall

SpecQuery == Init /\ [][NextQuery]_vars

(* ---------------------- calls on loadingEventTarget -------------------- *)

\* A call of a method of the emitter: the store is left alone.
EmitterCall(l, calls, call, result, threw) ==
    /\ listeners' = l
    /\ invoked' = calls
    /\ raised' = threw
    /\ returned' = result
    /\ lastCall' = call
    /\ firedOnce' = firedOnce \cup OneShots(listeners, calls)
    /\ UNCHANGED <<loadingCount, overrideState, localCounters, history, eventLog,
                   pending, asyncCalls, episode, delivered, startSurplus,
                   component>>

\* A registration call, which makes no emit call.
Registration(l, call) ==
    /\ nextReg <= MaxRegistrations
    /\ nextReg' = nextReg + 1
    /\ emitted' = <<>>
    /\ EmitterCall(l, <<>>, call, Null, FALSE)
    /\ UNCHANGED cleared

OnCall ==
    \E e \in Events, h \in Handlers :
        Registration(on(listeners, e, h, nextReg), Call("on", Some(e), Null))

OnceCall ==
    \E e \in Events, h \in Handlers :
        Registration(once(listeners, e, h, nextReg), Call("once", Some(e), Null))

\* on is called with a handler that may throw: one that does, or one that
\* returns normally.
OnRaisingCall ==
    \E e \in Events, h \in RaisingHandlers \cup {"h1"} :
        Registration(on(listeners, e, h, nextReg), Call("on", Some(e), Null))

\* Payloads of a direct emit call: null, or a `change` payload.
Payloads == {Null, ChangePayload(TRUE, FALSE)}

EmitCall ==
    \E e \in Events, payload \in Payloads :
        LET p == emit(listeners, e, payload)
        IN  /\ emitted' = Emit(<<>>, e, payload, Get)
            /\ EmitterCall(p.listeners, p.invoked, Call("emit", Some(e), Null),
                           IF p.raised THEN Null ELSE Some(p.result), p.raised)
            /\ UNCHANGED <<nextReg, cleared>>

\* removeAllListeners() is called; the registrations present at the call
\* are noted as cleared.
RemoveAllListenersCall ==
    /\ emitted' = <<>>
    /\ EmitterCall(removeAllListeners(listeners), <<>>,
                   Call("removeAllListeners", Null, Null), Null, FALSE)
    /\ cleared' = cleared \cup Registered(listeners)
    /\ UNCHANGED nextReg

\* The emitter used on its own, with handlers that return normally.
NextEmitter ==
    \/ OnCall
    \/ OnceCall
    \/ EmitCall
    \/ RemoveAllListenersCall

SpecEmitter == Init /\ [][NextEmitter]_vars

\* A component subscribes a handler to `change`, to `start` and to `stop`
\* when it mounts, as in the README's event listener example, and clears the
\* listeners when it unmounts.
SubscribeCall ==
    /\ nextReg + 2 <= MaxRegistrations
    /\ nextReg' = nextReg + 3
    /\ emitted' = <<>>
    /\ EmitterCall(on(on(on(listeners, "change", "log", nextReg),
                          "start", "log", nextReg + 1),
                       "stop", "log", nextReg + 2),
                   <<>>, Call("on", Some("stop"), Null), Null, FALSE)
    /\ UNCHANGED cleared

\* The store's actions with the listeners of a component subscribed to
\* loadingEventTarget.
NextEvents ==
    \/ SubscribeCall
    \/ RemoveAllListenersCall
    \/ HookStartLoading
    \/ HookStopLoading
    \/ OverrideLoadingCall

SpecEvents == Init /\ [][NextEvents]_vars

\* Listeners of which some throw, reached through the store's actions.
NextRaising ==
    \/ OnRaisingCall
    \/ HookStartLoading
    \/ HookStopLoading

SpecRaising == InitUnrecorded /\ [][NextRaising]_vars

\* on is called with a handler that calls a store action, for `start` or
\* for `stop`; it is the only listener.
OnReentrantCall ==
    \E e \in {"start", "stop"}, h \in ReentrantHandlers :
        /\ Registered(listeners) = {}
        /\ Registration(on(listeners, e, h, nextReg), Call("on", Some(e), Null))

\* The store actions called while such a listener may be registered.  The
\* call a handler makes counts towards MaxCount too.
StartLoadingReentered ==
    \E instanceId \in InstanceIdArgs :
        \E r \in {startLoadingWith(Get, instanceId, listeners)} :
            /\ loadingCount < MaxCount
            /\ r.state.loadingCount <= MaxCount
            /\ Complete(r, Call("startLoading", instanceId, Null))

StopLoadingReentered ==
    \E instanceId \in InstanceIdArgs :
        \E r \in {stopLoadingWith(Get, instanceId, listeners)} :
            /\ r.state.loadingCount <= MaxCount
            /\ Complete(r, Call("stopLoading", instanceId, Null))

OverrideLoadingReentered ==
    \E state \in OverrideArgs :
        \E r \in {overrideLoadingWith(Get, state, listeners)} :
            /\ r.state.loadingCount <= MaxCount
            /\ Complete(r, Call("overrideLoading", Null, state))

\* The store's actions with a listener that calls back into the store.
NextReentrant ==
    \/ OnReentrantCall
    \/ StartLoadingReentered
    \/ StopLoadingReentered
    \/ OverrideLoadingReentered

SpecReentrant == InitUnrecorded /\ [][NextReentrant]_vars


\* A step of React on the Loading component that runs none of its code
\* that calls the store.
ComponentStep(c, call) ==
    /\ component' = c
    /\ lastCall' = call
    /\ emitted' = <<>>
    /\ UNCHANGED <<loadingCount, overrideState, localCounters, history, eventLog,
                   pending, returned, asyncCalls, episode, listeners, nextReg,
                   invoked, raised, firedOnce, delivered, cleared, startSurplus>>

\* <Loading isLoading={p} /> is rendered: for the first time, or again with
\* another value of the prop, which is the effect's only dependency.  The
\* effect is then due, after the cleanup of the previous run if there is one.
LoadingRenders ==
    \E p \in BOOLEAN :
        /\ component.phase \in {"unmounted", "idle"}
        /\ component.phase = "idle" => p # component.isLoading
        /\ ComponentStep([component EXCEPT
                             !.isLoading = p,
                             !.phase = IF @ = "unmounted" THEN "effect" ELSE "cleanup"],
                         Call("render", Some(LoadingId), Some(p)))

\* The component is removed: the cleanup of its latest effect run is due.
LoadingUnmounts ==
    /\ component.phase = "idle"
    /\ ComponentStep([component EXCEPT !.phase = "unmounting"],
                     Call("unmount", Some(LoadingId), Null))

\* React runs the cleanup returned by the latest effect run.
CleanupRuns ==
    /\ component.phase \in {"cleanup", "unmounting"}
    /\ \E r \in {LoadingCleanup(Get, LoadingId, component.captured)} :
           /\ Apply(r, Call("cleanup", Some(LoadingId), Some(component.captured)))
           /\ episode' = Disturb(episode, pending, Some(LoadingId), TRUE, Get, r.state)
    /\ component' = [component EXCEPT
                         !.phase = IF @ = "cleanup" THEN "effect" ELSE "gone"]
    /\ UNCHANGED <<pending, returned, asyncCalls>>

\* React runs the effect with the prop of the latest render.
EffectRuns ==
    /\ component.phase = "effect"
    /\ component.isLoading => loadingCount < MaxCount
    /\ \E r \in {LoadingEffect(Get, LoadingId, component.isLoading)} :
           /\ Apply(r, Call("effect", Some(LoadingId), Some(component.isLoading)))
           /\ episode' = Disturb(episode, pending, Some(LoadingId), TRUE, Get, r.state)
    /\ component' = [component EXCEPT !.phase = "idle",
                                      !.captured = component.isLoading]
    /\ UNCHANGED <<pending, returned, asyncCalls>>

\* The other components start and stop through their own useLoading().
OtherStartLoading ==
    \E instanceId \in InstanceIds \ {LoadingId} :
        /\ loadingCount < MaxCount
        /\ Complete(localStartLoading(Get, instanceId),
                    Call("localStartLoading", Some(instanceId), Null))

OtherStopLoading ==
    \E instanceId \in InstanceIds \ {LoadingId} :
        Complete(localStopLoading(Get, instanceId),
                 Call("localStopLoading", Some(instanceId), Null))

\* A Loading component among other components that use the hook.
NextLoading ==
    \/ LoadingRenders
    \/ LoadingUnmounts
    \/ CleanupRuns
    \/ EffectRuns
    \/ OtherStartLoading
    \/ OtherStopLoading

SpecLoading == Init /\ [][NextLoading]_vars

(* ---------------------------- observations ----------------------------- *)

StoreOps == {"startLoading", "stopLoading", "overrideLoading"}

StartStopOps == {"startLoading", "stopLoading", "localStartLoading", "localStopLoading"}

\* How many of the remembered calls are one of ops.
CallsOf(h, ops) == Cardinality({i \in DOMAIN h : h[i].op \in ops})

(* ---------------------------- C1 --------------------------------------- *)

\* C1: in every reachable state isGlobalLoading() is the override value when
\* an override is set, and (global counter > 0) when the override is null.
C1_DerivedLoading ==
    isGlobalLoading(Get) =
        (IF overrideState = Null THEN loadingCount > 0 ELSE overrideState[1])

\* An override of false hides a positive counter.
C1_Witness ==
    /\ overrideState = Some(FALSE)
    /\ loadingCount > 0
    /\ ~isGlobalLoading(Get)

(* ---------------------------- C2 --------------------------------------- *)

C2_OrphanStop(k) ==
    /\ lastCall'.op \in {"stopLoading", "localStopLoading"}
    /\ lastCall'.key = Some(k)
    /\ getLocalCounter(Get, k) = 0

C2_Step ==
    \A k \in InstanceIds :
        C2_OrphanStop(k) =>
            /\ loadingCount' = loadingCount
            /\ \A b \in InstanceIds \ {k} :
                   getLocalCounter(Get', b) = getLocalCounter(Get, b)

C2_StaysLoading ==
    (overrideState = Null /\ \E b \in InstanceIds : getLocalCounter(Get, b) > 0)
        => isGlobalLoading(Get)

\* C2: pairing invariant. A stopLoading(A) issued while A's local counter is
\* 0 leaves the global counter and every other key's local counter unchanged,
\* and with no override the derived loading boolean is true whenever some
\* key's local counter is > 0.
C2_Pairing == [][C2_Step]_vars /\ []C2_StaysLoading

\* A never started, stopped, and B's loading is still shown.
C2_Witness ==
    /\ lastCall = Call("stopLoading", Some("A"), Null)
    /\ "A" \notin DOMAIN localCounters
    /\ getLocalCounter(Get, "B") > 0
    /\ overrideState = Null
    /\ isGlobalLoading(Get)

(* ---------------------------- C3 --------------------------------------- *)

\* C3: counter floor. After any sequence of calls the global counter and
\* every local counter are >= 0.
C3_CounterFloor ==
    /\ loadingCount >= 0
    /\ \A k \in DOMAIN localCounters : localCounters[k] >= 0

\* More stops than starts have been issued, keyed and unkeyed.
C3_Witness ==
    /\ history # Lost
    /\ CallsOf(history, {"stopLoading"}) > CallsOf(history, {"startLoading"})
    /\ \E i \in DOMAIN history : history[i] = Call("stopLoading", Null, Null)
    /\ \E i \in DOMAIN history : history[i] = Call("stopLoading", Some("A"), Null)
    /\ \E i \in DOMAIN history : history[i].op = "startLoading"

(* ---------------------------- C4 --------------------------------------- *)

\* C4: every call of startLoading, stopLoading or overrideLoading emits
\* exactly one `change` event, whether or not anything changed.
C4_OneChangePerCall ==
    lastCall.op \in StoreOps => CountOf(emitted, "change") = 1

\* A keyed stop of a key that never started: no counter and no boolean
\* changes, and `change` is the only event.
C4_Witness ==
    /\ lastCall = Call("stopLoading", Some("A"), Null)
    /\ "A" \notin DOMAIN localCounters
    /\ CountOf(emitted, "change") = 1
    /\ Len(emitted) = 1

(* ---------------------------- C5 --------------------------------------- *)

C5_Step ==
    lastCall'.op \in StoreOps =>
        /\ CountOf(emitted', "start") =
               (IF ~isLoading(Get) /\ isLoading(Get') THEN 1 ELSE 0)
        /\ CountOf(emitted', "stop") =
               (IF isLoading(Get) /\ ~isLoading(Get') THEN 1 ELSE 0)

\* C5: a mutating call emits `start` exactly when the derived boolean was
\* false before it and is true after it, and `stop` exactly when it was true
\* before and is false after.
C5_TransitionEvents == [][C5_Step]_vars

\* A second startLoading while already loading: no `start`.
C5_Witness ==
    /\ lastCall.op = "startLoading"
    /\ overrideState = Null
    /\ loadingCount >= 2
    /\ CountOf(emitted, "start") = 0
    /\ isLoading(Get)

(* ---------------------------- C6 --------------------------------------- *)

\* C6: within a call that crosses a boundary `start` or `stop` is emitted
\* before the call's `change`, and the store is already updated when either
\* event is emitted.
C6_BoundaryBeforeChange ==
    /\ \A i \in DOMAIN emitted : emitted[i].at = Get
    /\ (CountOf(emitted, "start") + CountOf(emitted, "stop") > 0) =>
           /\ Len(emitted) = 2
           /\ emitted[1].name \in {"start", "stop"}
           /\ emitted[2].name = "change"

\* The first keyed start: `start`, then `change`, both seeing the counters
\* already raised.
C6_Witness ==
    /\ lastCall = Call("startLoading", Some("A"), Null)
    /\ Len(emitted) = 2
    /\ emitted[1].name = "start"
    /\ emitted[1].at.loadingCount = 1
    /\ emitted[1].at.localCounters["A"] = 1
    /\ emitted[2].name = "change"

(* ---------------------------- C7 --------------------------------------- *)

\* C7: the payload of every `change` event is {isLoading, isOverrideState}
\* with isLoading the derived boolean after the call's update and
\* isOverrideState true exactly when the override is non-null after the call.
C7_ChangePayload ==
    \A i \in DOMAIN emitted :
        emitted[i].name = "change" =>
            emitted[i].payload =
                Some([isLoading |-> isLoading(Get),
                      isOverrideState |-> overrideState # Null])

\* Clearing a true override over an empty counter: the payload reports
\* not loading and no override.
C7_Witness ==
    /\ lastCall = Call("overrideLoading", Null, Null)
    /\ loadingCount = 0
    /\ CountOf(emitted, "stop") = 1
    /\ emitted[Len(emitted)].payload =
           Some([isLoading |-> FALSE, isOverrideState |-> FALSE])

(* ---------------------------- C8 --------------------------------------- *)

C8_Step ==
    /\ (lastCall'.op = "overrideLoading" /\ lastCall'.state # Null) =>
           isGlobalLoading(Get') = lastCall'.state[1]
    /\ (lastCall'.op = "overrideLoading" /\ lastCall'.state = Null) =>
           /\ loadingCount' = loadingCount
           /\ isGlobalLoading(Get') = (loadingCount > 0)
    /\ (lastCall'.op \in StartStopOps /\ overrideState # Null) =>
           /\ overrideState' = overrideState
           /\ isGlobalLoading(Get') = isGlobalLoading(Get)

\* C8: override precedence. overrideLoading(true) makes isGlobalLoading()
\* true and overrideLoading(false) makes it false, whatever the counter, and
\* no later startLoading / stopLoading changes that; overrideLoading(null)
\* makes it (global counter > 0) for the counter as it is at that moment.
C8_OverridePrecedence == [][C8_Step]_vars

\* An override of false survives starts: the counter is positive and
\* isGlobalLoading() is still false.
C8_Witness ==
    /\ overrideState = Some(FALSE)
    /\ lastCall.op = "startLoading"
    /\ loadingCount = 2
    /\ ~isGlobalLoading(Get)

(* ---------------------------- C9 --------------------------------------- *)

C9_Step ==
    (lastCall'.op = "stopLoading" /\ lastCall'.key = Null) =>
        /\ loadingCount' = loadingCount
        /\ localCounters' = localCounters
        /\ CountOf(emitted', "change") = 1

\* C9: a stopLoading without an instance key leaves the global counter and
\* every local counter unchanged, and still emits one `change`.
C9_UnkeyedStopFrame == [][C9_Step]_vars

\* An unkeyed stop issued while keyed and unkeyed starts are outstanding.
C9_Witness ==
    /\ lastCall = Call("stopLoading", Null, Null)
    /\ loadingCount = 2
    /\ getLocalCounter(Get, "A") = 1
    /\ CountOf(emitted, "change") = 1

(* ---------------------------- C10 -------------------------------------- *)

C10_Script(start, stop) == <<start, start, stop, stop>>

C10_Unkeyed ==
    C10_Script(Call("startLoading", Null, Null), Call("stopLoading", Null, Null))

C10_Keyed(k) ==
    C10_Script(Call("startLoading", Some(k), Null),
               Call("stopLoading", Some(k), Null))

\* isLoading() after the script's two starts, after its first stop and
\* after its second stop.
C10_Outcome(script, afterStarts, afterFirstStop, afterSecondStop) ==
    /\ history = SubSeq(script, 1, 2) => isLoading(Get) = afterStarts
    /\ history = SubSeq(script, 1, 3) => isLoading(Get) = afterFirstStop
    /\ history = script => isLoading(Get) = afterSecondStop

\* C10 as stated: startLoading(); startLoading(); stopLoading();
\* stopLoading() with no instance key gives true, true, false.
C10_Original == C10_Outcome(C10_Unkeyed, TRUE, TRUE, FALSE)

\* C10 as amended: with one instance key on all four calls the sequence
\* gives true, true, false; with no instance key the stops change nothing,
\* the counter stays 2 and isLoading() is true after both stops.
C10_ReferenceCounting ==
    /\ \A k \in InstanceIds : C10_Outcome(C10_Keyed(k), TRUE, TRUE, FALSE)
    /\ C10_Outcome(C10_Unkeyed, TRUE, TRUE, TRUE)
    /\ history = C10_Unkeyed => loadingCount = 2

\* The keyed sequence has run to its end and loading is off.
C10_Witness ==
    /\ history = C10_Keyed("A")
    /\ loadingCount = 0
    /\ ~isLoading(Get)

(* ---------------------------- C11 -------------------------------------- *)

\* No instance other than k has an entry in the local counters: k is the
\* only instance that ever started.
C11_Alone(k) == DOMAIN localCounters \subseteq {k}

\* C11: for a wrapper instance acting alone with no override, isLocalLoading
\* and isLoading are both true exactly when its local counter is > 0, and
\* that counter is the number of its starts minus the number of its stops
\* that reached the store, so n starts need n stops.
C11_SingleInstance ==
    \A k \in InstanceIds :
        (C11_Alone(k) /\ overrideState = Null) =>
            /\ isLocalLoading(Get, k) = (getLocalCounter(Get, k) > 0)
            /\ isGlobalLoading(Get) = (getLocalCounter(Get, k) > 0)
            /\ history # Lost =>
                   getLocalCounter(Get, k) =
                       CallsOf(history, {"startLoading"})
                           - CallsOf(history, {"stopLoading"})

\* Two starts and one stop: still loading, locally and globally.
C11_Witness ==
    /\ history = <<Call("startLoading", Some("A"), Null),
                   Call("startLoading", Some("A"), Null),
                   Call("stopLoading", Some("A"), Null)>>
    /\ lastCall = Call("localStopLoading", Some("A"), Null)
    /\ isLocalLoading(Get, "A")
    /\ isGlobalLoading(Get)

(* ---------------------------- C12 -------------------------------------- *)

IsStartOf(call, k) ==
    call.op \in {"startLoading", "localStartLoading"} /\ call.key = Some(k)

IsStopOf(call, k) ==
    call.op \in {"stopLoading", "localStopLoading"} /\ call.key = Some(k)

\* Starts of k minus the stops of k made while the count was > 0, over the
\* calls h in order.
RECURSIVE C12_Account(_, _)
C12_Account(h, k) ==
    IF h = <<>> THEN 0
    ELSE LET n == C12_Account(SubSeq(h, 1, Len(h) - 1), k)
             c == h[Len(h)]
         IN  IF IsStartOf(c, k) THEN n + 1
             ELSE IF IsStopOf(c, k) /\ n > 0 THEN n - 1
             ELSE n

C12_Step ==
    \A k \in InstanceIds :
        getLocalCounter(Get', k) =
            getLocalCounter(Get, k)
                + (IF IsStartOf(lastCall', k) THEN 1 ELSE 0)
                - (IF IsStopOf(lastCall', k) /\ getLocalCounter(Get, k) > 0
                   THEN 1 ELSE 0)

C12_Replay ==
    history # Lost =>
        \A k \in InstanceIds : getLocalCounter(Get, k) = C12_Account(history, k)

\* C12: local accounting. The local counter of every instance key k is the
\* number of startLoading(k) calls minus the number of stopLoading(k) calls
\* made while k's local counter was > 0: each call moves it by exactly that
\* much, and the counter agrees with the count over the remembered calls.
C12_LocalAccounting == [][C12_Step]_vars /\ []C12_Replay

\* One start and two stops of A: the second stop does not count.
C12_Witness ==
    /\ history = <<Call("startLoading", Some("A"), Null),
                   Call("stopLoading", Some("A"), Null),
                   Call("stopLoading", Some("A"), Null)>>
    /\ getLocalCounter(Get, "A") = 0

(* ---------------------------- C13 -------------------------------------- *)

\* The sum of the values of a Record<string, number>.
RECURSIVE SumOf(_)
SumOf(obj) ==
    IF DOMAIN obj = {} THEN 0
    ELSE LET k == CHOOSE x \in DOMAIN obj : TRUE
         IN  obj[k] + SumOf([x \in (DOMAIN obj) \ {k} |-> obj[x]])

\* A startLoading that carries no key, or the empty string.
IsUnkeyedStart(call) == call.op = "startLoading" /\ ~Truthy(call.key)

UnkeyedStarts(h) == Cardinality({i \in DOMAIN h : IsUnkeyedStart(h[i])})

C13_Step ==
    /\ \A k \in InstanceIds :
           /\ IsStartOf(lastCall', k) =>
                  /\ loadingCount' = loadingCount + 1
                  /\ getLocalCounter(Get', k) = getLocalCounter(Get, k) + 1
           /\ (IsStopOf(lastCall', k) /\ getLocalCounter(Get, k) > 0) =>
                  /\ loadingCount' = loadingCount - 1
                  /\ getLocalCounter(Get', k) = getLocalCounter(Get, k) - 1
    /\ (loadingCount' - SumOf(localCounters')) - (loadingCount - SumOf(localCounters))
           = (IF IsUnkeyedStart(lastCall') THEN 1 ELSE 0)

C13_Sum ==
    history # Lost =>
        loadingCount = SumOf(localCounters) + UnkeyedStarts(history)

\* C13: lockstep. A keyed startLoading(k) raises the global counter and k's
\* local counter by 1 each, an effective keyed stopLoading(k) lowers both by
\* 1 each, and the global counter is the sum of the local counters plus the
\* number of unkeyed starts made so far.
C13_Lockstep == [][C13_Step]_vars /\ []C13_Sum

\* One unkeyed start, a start of A and of B, and an effective stop of A.
C13_Witness ==
    /\ history # Lost
    /\ UnkeyedStarts(history) = 1
    /\ lastCall = Call("stopLoading", Some("A"), Null)
    /\ loadingCount = 2
    /\ getLocalCounter(Get, "A") = 0
    /\ getLocalCounter(Get, "B") = 1
    /\ SumOf(localCounters) = 1

(* ---------------------------- C14 -------------------------------------- *)

\* C14: with no override set and every call made through wrapper instances,
\* the global isLoading is true exactly when some instance's local counter
\* is > 0.
C14_AnyInstanceLoading ==
    overrideState = Null =>
        (isGlobalLoading(Get) <=>
             \E k \in InstanceIds : getLocalCounter(Get, k) > 0)

\* A and B started, A has stopped, B has not: the indicator is still on.
C14_Witness ==
    /\ lastCall = Call("localStopLoading", Some("A"), Null)
    /\ overrideState = Null
    /\ "A" \in DOMAIN localCounters
    /\ getLocalCounter(Get, "A") = 0
    /\ getLocalCounter(Get, "B") > 0
    /\ isGlobalLoading(Get)

(* ---------------------------- C15 -------------------------------------- *)

C15_Start(k) == Call("startLoading", Some(k), Null)

C15_Stop(k) == Call("stopLoading", Some(k), Null)

\* A and B each start once, in either order.
C15_Starts == {<<C15_Start("A"), C15_Start("B")>>, <<C15_Start("B"), C15_Start("A")>>}

\* The calls of eventLog that emitted the event name.
C15_Emitters(name) ==
    {i \in DOMAIN eventLog :
        \E j \in DOMAIN eventLog[i] : eventLog[i][j] = name}

\* C15: two callers. After A and B each called startLoading(ownKey) the
\* global counter is 2 and loading is true; after A's stopLoading(ownKey) it
\* is 1, loading is still true, A's local counter is 0 and B's is 1; after
\* B's stopLoading(ownKey) it is 0 and loading is false, and over the run
\* `stop` was emitted once, by B's final call.
C15_TwoCallers ==
    \A starts \in C15_Starts :
        /\ history = starts =>
               /\ loadingCount = 2
               /\ isLoading(Get)
        /\ history = starts \o <<C15_Stop("A")>> =>
               /\ loadingCount = 1
               /\ isLoading(Get)
               /\ getLocalCounter(Get, "A") = 0
               /\ getLocalCounter(Get, "B") = 1
               /\ C15_Emitters("stop") = {}
        /\ history = starts \o <<C15_Stop("A"), C15_Stop("B")>> =>
               /\ loadingCount = 0
               /\ ~isLoading(Get)
               /\ C15_Emitters("stop") = {4}
               /\ Len(eventLog[4]) = 2
               /\ eventLog[4][1] = "stop"

\* The run has reached its end through the two wrappers.
C15_Witness ==
    /\ history = <<C15_Start("A"), C15_Start("B"), C15_Stop("A"), C15_Stop("B")>>
    /\ lastCall = Call("localStopLoading", Some("B"), Null)
    /\ CountOf(emitted, "stop") = 1
    /\ ~isLoading(Get)

(* ---------------------------- C20 -------------------------------------- *)

\* The sum of the local counters of the instances other than k.
C20_Others(s, k) == SumOf(s.localCounters) - getLocalCounter(s, k)

C20_Step ==
    \A k \in InstanceIds :
        (IsStartOf(lastCall', k) \/ IsStopOf(lastCall', k)) =>
            \A j \in InstanceIds \ {k} :
                /\ Lookup(localCounters', j) = Lookup(localCounters, j)
                /\ isLocalLoading(Get', j) = isLocalLoading(Get, j)

C20_Floor == \A k \in InstanceIds : loadingCount >= C20_Others(Get, k)

\* C20: instance isolation. A startLoading or stopLoading of one instance key
\* never changes the local counter or isLocalLoading of another key, and the
\* global counter is never below the sum of the other callers' outstanding
\* starts, however often a caller stops.
C20_Isolation == [][C20_Step]_vars /\ []C20_Floor

\* A has stopped twice after one start while B's start is outstanding.
C20_Witness ==
    /\ history # Lost
    /\ Cardinality({i \in DOMAIN history : history[i] = C15_Stop("A")}) = 2
    /\ Cardinality({i \in DOMAIN history : history[i] = C15_Start("A")}) = 1
    /\ lastCall = C15_Stop("A")
    /\ getLocalCounter(Get, "B") = 1
    /\ loadingCount = 1

(* ---------------------------- C16 -------------------------------------- *)

\* The step is an asyncUseLoading call of instance k up to its await.
C16_Called(k) == pending'[k] = pending[k] + 1

\* The step is the resumption of an asyncUseLoading call of instance k.
C16_Settled(k) == pending'[k] = pending[k] - 1

\* startLoading(key) ran in the step: the key's counter and the global
\* counter went up by one and one `change` was emitted.
C16_Started(k) ==
    /\ getLocalCounter(Get', k) = getLocalCounter(Get, k) + 1
    /\ loadingCount' = loadingCount + 1
    /\ CountOf(emitted', "change") = 1

\* The call yields the value or re-raises the failure of its promise.
C16_Propagated ==
    /\ returned' # Null
    /\ returned'[1].result = returned'[1].promise

C16_OriginalStep ==
    \A k \in InstanceIds :
        /\ C16_Called(k) => C16_Started(k)
        /\ C16_Settled(k) => /\ CountOf(emitted', "change") = 1
                             /\ C16_Propagated

\* C16 as stated: stopLoading(key) runs at every settle, so every settle
\* emits one `change`.
C16_Original == [][C16_OriginalStep]_vars

C16_Step ==
    \A k \in InstanceIds :
        /\ C16_Called(k) => C16_Started(k)
        /\ C16_Settled(k) =>
              /\ C16_Propagated
              /\ IF isLocalLoading(Get, k)
                 THEN /\ CountOf(emitted', "change") = 1
                      /\ getLocalCounter(Get', k) = getLocalCounter(Get, k) - 1
                      /\ loadingCount' = loadingCount - 1
                 ELSE /\ emitted' = <<>>
                      /\ Get' = Get

\* C16: asyncUseLoading(p) calls startLoading(key) before awaiting p; once p
\* settles, fulfilled or rejected, it calls stopLoading(key) if the key's
\* local counter is above zero and makes no store call otherwise; it then
\* yields p's value or re-raises p's failure unchanged.
C16_AsyncWrapper == [][C16_Step]_vars

\* A's promise was rejected after A had stopped directly while it was in
\* flight: the failure is re-raised and no store action ran at the settle.
C16_Witness ==
    /\ lastCall = Call("asyncSettled", Some("A"), Null)
    /\ returned # Null
    /\ returned[1].promise.status = "rejected"
    /\ returned[1].result = returned[1].promise
    /\ emitted = <<>>
    /\ pending["A"] = 0

(* ---------------------------- C17 -------------------------------------- *)

\* The last call was the settle that ended an episode of instance k: none of
\* its asyncUseLoading calls is in flight any more.
C17_Done(k) ==
    /\ lastCall = Call("asyncSettled", Some(k), Null)
    /\ pending[k] = 0
    /\ episode[k] # Null

\* C17 as stated: the global counter is back as well, whatever the other
\* callers did in the meantime.
C17_Original ==
    \A k \in InstanceIds :
        (C17_Done(k) /\ episode[k][1].quiet) =>
            /\ getLocalCounter(Get, k) = episode[k][1].local
            /\ loadingCount = episode[k][1].global

\* C17: counter balance of the async wrapper. If an instance makes no other
\* start or stop call while its asyncUseLoading calls (one, or several nested
\* or overlapping) are in flight, then once they have all settled, fulfilled
\* or rejected, its local counter is back to the value it had just before
\* the first of them; the global counter is back to its value as well when
\* no other caller has changed it in the meantime.
C17_Balance ==
    \A k \in InstanceIds :
        (C17_Done(k) /\ episode[k][1].quiet) =>
            /\ getLocalCounter(Get, k) = episode[k][1].local
            /\ episode[k][1].alone => loadingCount = episode[k][1].global

\* Two asyncUseLoading calls of A, the second made while the first was in
\* flight, have both settled, the last one by a rejection, with no other
\* call in between.
C17_Witness ==
    /\ C17_Done("A")
    /\ episode["A"][1].quiet
    /\ episode["A"][1].alone
    /\ asyncCalls = 2
    /\ history = <<C15_Start("A"), C15_Start("A"), C15_Stop("A"), C15_Stop("A")>>
    /\ returned[1].result.status = "rejected"
    /\ loadingCount = 0

(* ---------------------------- C18 -------------------------------------- *)

\* C18: when loading is driven only by asyncUseLoading calls, of one or
\* several instances and overlapping in any order, isLoading is true whenever
\* at least one wrapped promise is still pending, whatever the order in which
\* the promises settle.
C18_LoadingWhilePending ==
    (\E k \in InstanceIds : pending[k] > 0) => isLoading(Get)

\* A called first and B second, A's promise has settled first and B's is
\* still pending.
C18_Witness ==
    /\ history = <<C15_Start("A"), C15_Start("B"), C15_Stop("A")>>
    /\ lastCall = Call("asyncSettled", Some("A"), Null)
    /\ pending = [k \in InstanceIds |-> IF k = "B" THEN 1 ELSE 0]
    /\ isLoading(Get)

(* ---------------------------- C19 -------------------------------------- *)

\* Nothing is loading: isLoading is false and every local counter is 0.
C19_Idle ==
    /\ ~isLoading(Get)
    /\ \A k \in InstanceIds : getLocalCounter(Get, k) = 0

C21_Is(op) == lastCall'.op = op

C21_Step ==
    (lastCall'.op \in QueryOps) =>
        /\ Get' = Get
        /\ emitted' = <<>>
        /\ history' = history
        /\ C21_Is("isGlobalLoading") => returned' = Some(isLoading(Get))
        /\ \A k \in InstanceIds :
              (lastCall'.key = Some(k)) =>
                  /\ (C21_Is("getLocalCounter") /\ k \notin DOMAIN localCounters)
                        => returned' = Some(0)
                  /\ (C21_Is("isLocalLoading") /\ k \notin DOMAIN localCounters)
                        => returned' = Some(FALSE)
                  /\ C21_Is("isLocalLoading")
                        => returned' = Some(getLocalCounter(Get', k) > 0)

\* C21: the queries isGlobalLoading(), isLocalLoading(key) and
\* getLocalCounter(key) are pure reads: a call changes neither the counters
\* nor the override, creates no local-counter entry and emits no event; for
\* a key never started they return false and 0, and isLocalLoading(key)
\* equals getLocalCounter(key) > 0.
C21_PureQueries == [][C21_Step]_vars

\* getLocalCounter was called for B, which has never started, while A is
\* loading: it returned 0 and B has no entry.
C21_Witness ==
    /\ lastCall = Call("getLocalCounter", Some("B"), Null)
    /\ returned = Some(0)
    /\ DOMAIN localCounters = {"A"}
    /\ localCounters["A"] = 1
    /\ emitted = <<>>

(* ---------------------------- C22 -------------------------------------- *)

\* The events logged for the n-th remembered store action, in log order.
C22_Of(n) ==
    LET part == SelectSeq(delivered, LAMBDA c : c.call = n)
    IN  [i \in DOMAIN part |-> part[i].name]

\* The log entries are in the order of the actions that emitted them.
C22_InCallOrder ==
    \A i, j \in DOMAIN delivered :
        i < j => delivered[i].call <= delivered[j].call

\* Every remembered action's events were logged as it emitted them, or not
\* at all when the component was not subscribed at the time.
C22_Complete ==
    \A n \in DOMAIN eventLog : C22_Of(n) \in {<<>>, eventLog[n]}

TimesInvoked(calls, reg) == Cardinality({i \in DOMAIN calls : calls[i].reg = reg})

\* The step is an emit call.
IsEmit == lastCall'.op = "emit"

\* A one-shot registration that has fired is not called again, and an emit
\* calls every one-shot entry of its event once and removes it.
C23_Step ==
    /\ \A i \in DOMAIN invoked' : invoked'[i].reg \notin firedOnce
    /\ IsEmit =>
          LET entries == listeners[lastCall'.key[1]]
          IN  \A k \in DOMAIN entries :
                  entries[k].once =>
                      /\ TimesInvoked(invoked', entries[k].reg) = 1
                      /\ entries[k].reg \notin Registered(listeners')
                      /\ entries[k].reg \in firedOnce'

\* C23: one-shot semantics. A handler registered with once(e, h) is invoked
\* exactly once, on the first emit of e after its registration, and never on
\* a later emit; when several once-handlers are registered for the same
\* event, a single emit invokes each of them exactly once and the next emit
\* invokes none of them.
C23_OneShot ==
    /\ [][C23_Step]_vars
    /\ [](firedOnce \cap Registered(listeners) = {})

\* Two once-handlers of `change` have just been invoked by one emit, each
\* once, and are no longer registered.
C23_Witness ==
    /\ lastCall = Call("emit", Some("change"), Null)
    /\ Len(invoked) = 2
    /\ invoked[1].reg = 1 /\ invoked[2].reg = 2
    /\ firedOnce = {1, 2}
    /\ listeners = NoListeners

(* ---------------------------- C24 -------------------------------------- *)

\* An emit call calls the entries registered for its event at call time, one
\* call per entry, in the order of the sequence and so of registration, each
\* with the event's name and the payload of the call.
C24_Step ==
    IsEmit =>
        LET entries == listeners[lastCall'.key[1]]
        IN  /\ Len(invoked') = Len(entries)
            /\ \A i \in DOMAIN entries :
                  /\ invoked'[i].reg = entries[i].reg
                  /\ invoked'[i].handler = entries[i].handler
                  /\ invoked'[i].name = lastCall'.key[1]
                  /\ invoked'[i].payload = emitted'[1].payload
            /\ \A i, j \in DOMAIN invoked' :
                  i < j => invoked'[i].reg < invoked'[j].reg

\* Every listener sequence is in registration order.
C24_Stable ==
    \A e \in Events :
        \A i, j \in DOMAIN listeners[e] :
            i < j => listeners[e][i].reg < listeners[e][j].reg

\* C24: emit(e, payload) invokes every handler currently registered for e,
\* each exactly once with that payload, in the order in which the handlers
\* were registered; the order is the same on every later emit apart from
\* removed one-shot handlers.
C24_RegistrationOrder == [][C24_Step]_vars /\ []C24_Stable

\* Three handlers were registered for `change`, the second one one-shot; a
\* later emit with a payload has called the first and the third, in that
\* order.
C24_Witness ==
    /\ lastCall = Call("emit", Some("change"), Null)
    /\ firedOnce = {2}
    /\ Len(invoked) = 2
    /\ invoked[1].reg = 1 /\ invoked[2].reg = 3
    /\ invoked[1].payload = ChangePayload(TRUE, FALSE)
    /\ invoked[2].payload = ChangePayload(TRUE, FALSE)

(* ---------------------------- C25 -------------------------------------- *)

\* The registrations in the listener sequence of event e.
C25_RegsOf(l, e) == {l[e][i].reg : i \in DOMAIN l[e]}

\* An emit of an event calls only entries registered for that event and
\* leaves the listener sequences of the other events as they are.
C25_Step ==
    IsEmit =>
        LET y == lastCall'.key[1]
        IN  /\ \A i \in DOMAIN invoked' :
                  /\ invoked'[i].name = y
                  /\ invoked'[i].reg \in C25_RegsOf(listeners, y)
            /\ \A x \in Events \ {y} : listeners'[x] = listeners[x]

\* C25: event isolation. Emitting event Y never invokes a handler registered
\* for a different event X, and never removes a one-shot handler of X.
C25_Isolation == [][C25_Step]_vars

\* `stop` was emitted and its handler called while a one-shot handler of
\* `change` and a handler of `start` were registered: both are still there
\* and were not called.
C25_Witness ==
    /\ lastCall = Call("emit", Some("stop"), Null)
    /\ Len(invoked) = 1
    /\ Len(listeners["change"]) = 1 /\ listeners["change"][1].once
    /\ Len(listeners["start"]) = 1
    /\ firedOnce = {}

(* ---------------------------- C26 -------------------------------------- *)

C26_Step ==
    IsEmit =>
        /\ ~raised'
        /\ returned' = Some(Len(listeners[lastCall'.key[1]]) > 0)

\* C26: emit(e, payload) returns true if and only if at least one handler
\* was registered for e at the time of the call, and returns false, without
\* error, when there is none, including after removeAllListeners and after
\* all one-shot handlers of e have fired.
C26_EmitResult == [][C26_Step]_vars

\* An emit has called the only handler, a one-shot one, and returned true;
\* no handler is registered any more.
C26_Witness ==
    /\ lastCall = Call("emit", Some("start"), Null)
    /\ returned = Some(TRUE)
    /\ Len(invoked) = 1
    /\ firedOnce = {1}
    /\ listeners = NoListeners

(* ---------------------------- C27 -------------------------------------- *)

\* removeAllListeners leaves no listener and calls none, and a registration
\* that was cleared is not called by any later call.
C27_Step ==
    /\ (lastCall'.op = "removeAllListeners") =>
           /\ \A e \in Events : listeners'[e] = <<>>
           /\ invoked' = <<>>
    /\ \A i \in DOMAIN invoked' : invoked'[i].reg \notin cleared

\* C27: removeAllListeners() empties the listener sequence of every event,
\* including one-shot handlers that have not fired yet: after it, and until
\* a new registration, no emit of any event invokes any previously
\* registered handler.
C27_RemoveAll ==
    /\ [][C27_Step]_vars
    /\ [](cleared \cap Registered(listeners) = {})

\* Two registrations, neither of which had fired as a one-shot, were cleared,
\* and an emit made after that has called no handler.
C27_Witness ==
    /\ lastCall = Call("emit", Some("change"), Null)
    /\ cleared = {1, 2}
    /\ nextReg = 3
    /\ invoked = <<>>
    /\ returned = Some(FALSE)

(* ---------------------------- C28 -------------------------------------- *)

\* The entries of handler h in the sequence entries that were registered
\* after the last clear.
C28_Live(entries, h) ==
    {i \in DOMAIN entries : entries[i].handler = h /\ entries[i].reg \notin cleared}

\* An emit calls a handler once for each of its registrations made since the
\* last clear.
C28_Step ==
    IsEmit =>
        \A h \in Handlers :
            Cardinality({i \in DOMAIN invoked' : invoked'[i].handler = h})
                = Cardinality(C28_Live(listeners[lastCall'.key[1]], h))

\* C28: round trip. After removeAllListeners(), registering a handler again
\* and emitting its event invokes that handler exactly once per emit: no
\* registration made before the clear contributes an extra invocation.
C28_RoundTrip == [][C28_Step]_vars

\* h1 was registered, the listeners were cleared, h1 was registered again,
\* and an emit has called it once.
C28_Witness ==
    /\ lastCall = Call("emit", Some("start"), Null)
    /\ cleared = {1}
    /\ nextReg = 3
    /\ Len(invoked) = 1
    /\ invoked[1].handler = "h1" /\ invoked[1].reg = 2
    /\ Len(listeners["start"]) = 1

(* ---------------------------- C29 -------------------------------------- *)

\* An emit calls every entry of the sequence as it is at call time exactly
\* once, and leaves the persistent entries in place and in order.
C29_Step ==
    IsEmit =>
        LET entries == listeners[lastCall'.key[1]]
        IN  /\ \A k \in DOMAIN entries : TimesInvoked(invoked', entries[k].reg) = 1
            /\ listeners'[lastCall'.key[1]] = SelectSeq(entries, LAMBDA x : ~x.once)

\* C29: snapshot dispatch. Within one emit, removing one-shot handlers as
\* they fire never causes another handler registered for that event at call
\* time to be skipped or invoked twice, for every mix and order of on- and
\* once-registrations.
C29_Snapshot == [][C29_Step]_vars

\* A one-shot handler registered between two persistent ones has fired in an
\* emit that called all three; the two persistent ones remain.
C29_Witness ==
    /\ lastCall = Call("emit", Some("change"), Null)
    /\ Len(invoked) = 3
    /\ firedOnce = {2}
    /\ Len(listeners["change"]) = 2
    /\ listeners["change"][1].reg = 1 /\ listeners["change"][2].reg = 3

(* ---------------------------- C30 -------------------------------------- *)

\* The step is a start or a stop made through the wrapper.
C30_IsStoreCall == lastCall'.op \in {"localStartLoading", "localStopLoading"}

\* The handler calls of the step in which a handler threw.
C30_Failures == {i \in DOMAIN invoked' : Raises(invoked'[i].handler)}

\* A handler that throws ends the action: the exception reaches the caller,
\* no handler is called after it and no further emit call is made; the
\* handlers registered before it for its event have been called, those
\* registered after it have not.  An action whose handlers all return
\* does not throw.
C30_Step ==
    C30_IsStoreCall =>
        /\ raised' <=> C30_Failures # {}
        /\ \A i \in C30_Failures :
              /\ i = Len(invoked')
              /\ emitted'[Len(emitted')].name = invoked'[i].name
              /\ LET entries == listeners[invoked'[i].name]
                 IN  \A k \in DOMAIN entries :
                         TimesInvoked(invoked', entries[k].reg)
                             = IF entries[k].reg <= invoked'[i].reg THEN 1 ELSE 0
        /\ \A k \in DOMAIN emitted' :
              (\E j \in DOMAIN listeners[emitted'[k].name] :
                    Raises(listeners[emitted'[k].name][j].handler))
                 => raised' /\ k = Len(emitted')

\* C30: handler failure is fail-fast. If a handler raises during emit, the
\* failure propagates to the caller of emit, and so to the caller of the
\* store's mutating operation, and the handlers registered after the failing
\* one are not invoked in that dispatch pass.
C30_FailFast == [][C30_Step]_vars

\* A start went from idle to loading with a throwing handler of `start`
\* followed by another handler of `start`, and a handler of `change`: the
\* call threw, only the throwing handler was called and `change` was not
\* emitted.
C30_Witness ==
    /\ lastCall = Call("localStartLoading", Some("A"), Null)
    /\ raised
    /\ loadingCount = 1
    /\ Names(emitted) = <<"start">>
    /\ Len(invoked) = 1 /\ invoked[1].handler = "bad"
    /\ Len(listeners["start"]) = 2
    /\ Len(listeners["change"]) = 1

(* ---------------------------- C31 -------------------------------------- *)

\* A store stopLoading whose key is undefined or the empty string.
C31_UnkeyedStop == lastCall'.op = "stopLoading" /\ ~Truthy(lastCall'.key)

C31_OriginalStep ==
    C31_UnkeyedStop => loadingCount' = MathMax(0, loadingCount - 1)

\* C31 as stated: the pairing gate is not applied to the global counter when
\* stopLoading is called without an instance key, so such a stop decrements
\* the global counter although no start matches it.
C31_Original == [][C31_OriginalStep]_vars

C31_Step ==
    /\ C31_UnkeyedStop => loadingCount' = loadingCount
    /\ loadingCount' < loadingCount =>
           \E k \in InstanceIds :
               /\ lastCall'.op \in {"stopLoading", "localStopLoading"}
               /\ lastCall'.key = Some(k)
               /\ getLocalCounter(Get, k) > 0
               /\ loadingCount' = loadingCount - 1
               /\ getLocalCounter(Get', k) = getLocalCounter(Get, k) - 1

\* C31: the pairing gate covers the global counter too.  A stopLoading made
\* without an instance key never decrements the global counter, and every
\* decrement of the global counter is made by a stop that carries a key
\* whose local counter is positive, together with that local counter.
C31_GatedDecrement == [][C31_Step]_vars

\* An unkeyed start is not undone by the unkeyed stop that follows it.
C31_Witness ==
    /\ history = <<Call("startLoading", Null, Null), Call("stopLoading", Null, Null)>>
    /\ loadingCount = 1
    /\ isGlobalLoading(Get)

(* ---------------------------- C32 -------------------------------------- *)

C32_Step ==
    \A k \in InstanceIds :
        lastCall' = Call("localStopLoading", Some(k), Null) =>
            IF getLocalCounter(Get, k) = 0
            THEN /\ loadingCount' = loadingCount
                 /\ localCounters' = localCounters
                 /\ overrideState' = overrideState
                 /\ emitted' = <<>>
                 /\ history' = history
            ELSE /\ Get' = stopLoading(Get, Some(k)).state
                 /\ emitted' = stopLoading(Get, Some(k)).emitted
                 /\ loadingCount' = loadingCount - 1
                 /\ getLocalCounter(Get', k) = getLocalCounter(Get, k) - 1
                 /\ overrideState' = overrideState
                 /\ CountOf(emitted', "change") = 1
                 /\ history' = Remember(history, <<Call("stopLoading", Some(k), Null)>>)

\* C32: the wrapper's stopLoading() makes no store call when its instance's
\* local counter is 0, so the counters and the override are unchanged and
\* no `change`, `start` or `stop` is emitted; when the local counter is
\* above 0 it makes exactly one store stopLoading(key).
C32_GuardedStop == [][C32_Step]_vars

\* A's first stop reached the store, its second one did not, while B is
\* still loading.
C32_Witness ==
    /\ lastCall = Call("localStopLoading", Some("A"), Null)
    /\ emitted = <<>>
    /\ history = <<Call("startLoading", Some("A"), Null),
                   Call("startLoading", Some("B"), Null),
                   Call("stopLoading", Some("A"), Null)>>
    /\ getLocalCounter(Get, "A") = 0
    /\ loadingCount = 1

(* ---------------------------- C33 -------------------------------------- *)

\* The starts still outstanding after the calls h, whatever overrides were
\* set in between: the unkeyed starts and, per key, its starts minus its
\* effective stops.
C33_Outstanding(h) ==
    UnkeyedStarts(h)
        + C12_Account(h, "A") + C12_Account(h, "B")

C33_Step ==
    /\ lastCall'.op = "overrideLoading" =>
           /\ overrideState' = lastCall'.state
           /\ loadingCount' = loadingCount
           /\ localCounters' = localCounters
    /\ lastCall'.op \in StartStopOps =>
           /\ overrideState' = overrideState
           /\ loadingCount' =
                  loadingCount
                      + (IF lastCall'.op \in {"startLoading", "localStartLoading"}
                         THEN 1 ELSE 0)
                      - (IF \E k \in InstanceIds :
                                IsStopOf(lastCall', k) /\ getLocalCounter(Get, k) > 0
                         THEN 1 ELSE 0)
           /\ \A k \in InstanceIds :
                  getLocalCounter(Get', k) =
                      getLocalCounter(Get, k)
                          + (IF IsStartOf(lastCall', k) THEN 1 ELSE 0)
                          - (IF IsStopOf(lastCall', k) /\ getLocalCounter(Get, k) > 0
                             THEN 1 ELSE 0)

C33_Exposed ==
    history # Lost =>
        /\ loadingCount = C33_Outstanding(history)
        /\ overrideState = Null =>
               isGlobalLoading(Get) = (C33_Outstanding(history) > 0)

\* C33: overrideLoading(s) sets the override to s and leaves the global
\* counter and every local counter unchanged; startLoading and stopLoading
\* leave the override unchanged and move the counters as they do with no
\* override, so once the override is cleared the derived boolean reflects
\* every start and stop made while it was set.
C33_OverrideFrame == [][C33_Step]_vars /\ []C33_Exposed

\* A started and stopped under an override of false; the clearing call
\* finds both counted.
C33_Witness ==
    /\ lastCall = Call("overrideLoading", Null, Null)
    /\ \E i \in DOMAIN history :
           /\ i + 3 = Len(history)
           /\ history[i] = Call("overrideLoading", Null, Some(FALSE))
           /\ history[i + 1] = Call("startLoading", Some("A"), Null)
           /\ history[i + 2] = Call("stopLoading", Some("A"), Null)
    /\ overrideState = Null
    /\ loadingCount = 0
    /\ getLocalCounter(Get, "A") = 0
    /\ "A" \in DOMAIN localCounters
    /\ ~isGlobalLoading(Get)

(* ---------------------------- C34 -------------------------------------- *)

\* The keys that the remembered calls have started.
C34_Started(h) == {k \in InstanceIds : \E i \in DOMAIN h : IsStartOf(h[i], k)}

C34_Step ==
    /\ DOMAIN localCounters \subseteq DOMAIN localCounters'
    /\ \A k \in InstanceIds :
           /\ IsStartOf(lastCall', k) => k \in DOMAIN localCounters'
           /\ (k \in DOMAIN localCounters' /\ k \notin DOMAIN localCounters)
                  => IsStartOf(lastCall', k)

C34_Keys ==
    /\ DOMAIN localCounters \subseteq InstanceIds
    /\ history # Lost => DOMAIN localCounters = C34_Started(history)

\* C34: no key eviction. A key enters the local-counter mapping exactly at
\* its first startLoading(key): a stopLoading of a key not yet seen creates
\* no entry.  An entry is never removed: when its counter has returned to 0
\* it stays with value 0, so the set of keys only grows.
C34_NoEviction == [][C34_Step]_vars /\ []C34_Keys

\* A started and stopped, B only stopped: A's entry stays at 0 and B has
\* none.
C34_Witness ==
    /\ history = <<Call("startLoading", Some("A"), Null),
                   Call("stopLoading", Some("B"), Null),
                   Call("stopLoading", Some("A"), Null)>>
    /\ DOMAIN localCounters = {"A"}
    /\ localCounters["A"] = 0

(* ---------------------------- C35 -------------------------------------- *)

C35_Step ==
    overrideState # Null =>
        /\ lastCall'.op \in StartStopOps =>
               /\ \A i \in DOMAIN emitted' :
                      /\ emitted'[i].name = "change"
                      /\ emitted'[i].payload = ChangePayload(overrideState[1], TRUE)
               /\ lastCall'.op \in StoreOps => Len(emitted') = 1
        /\ (CountOf(emitted', "start") + CountOf(emitted', "stop") > 0) =>
               lastCall'.op = "overrideLoading"

\* C35: while an override is set (true or false), no startLoading or
\* stopLoading call emits `start` or `stop`, whatever happens to the
\* counters: such a call emits only `change`, with isLoading equal to the
\* override value and isOverrideState true.  `start` and `stop` are then
\* emitted by overrideLoading only.
C35_SilentUnderOverride == [][C35_Step]_vars

\* Under an override of false the first start raises the counter from 0 and
\* emits `change` alone.
C35_Witness ==
    /\ lastCall = Call("startLoading", Some("A"), Null)
    /\ overrideState = Some(FALSE)
    /\ loadingCount = 1
    /\ Len(emitted) = 1
    /\ emitted[1].name = "change"
    /\ emitted[1].payload = ChangePayload(FALSE, TRUE)

(* ---------------------------- C36 -------------------------------------- *)

\* The `start` and `stop` events among the events of the remembered calls,
\* in the order they were emitted.
RECURSIVE C36_Boundaries(_)
C36_Boundaries(log) ==
    IF log = <<>> THEN <<>>
    ELSE C36_Boundaries(SubSeq(log, 1, Len(log) - 1))
             \o SelectSeq(log[Len(log)], LAMBDA name : name \in {"start", "stop"})

C36_Step ==
    LET starts == CountOf(emitted', "start")
        stops == CountOf(emitted', "stop")
    IN  /\ starts + stops <= 1
        /\ starts = 1 => startSurplus = 0
        /\ stops = 1 => startSurplus = 1

C36_Balance ==
    /\ startSurplus = (IF isGlobalLoading(Get) THEN 1 ELSE 0)
    /\ \A i \in DOMAIN C36_Boundaries(eventLog) :
           C36_Boundaries(eventLog)[i] = (IF i % 2 = 1 THEN "start" ELSE "stop")

\* C36: over any sequence of mutating calls from the initial state the
\* emitted `start` and `stop` events strictly alternate, beginning with
\* `start`: a `start` is emitted only when as many stops as starts have been
\* emitted, a `stop` only when one start more, and at every point the number
\* of `start` events minus the number of `stop` events is 1 when the derived
\* loading boolean is true and 0 when it is false.
C36_Alternation == [][C36_Step]_vars /\ []C36_Balance

\* A start by a counter, a stop by an override of false, and a start again
\* by clearing the override.
C36_Witness ==
    /\ history # Lost
    /\ C36_Boundaries(eventLog) = <<"start", "stop", "start">>
    /\ lastCall = Call("overrideLoading", Null, Null)
    /\ startSurplus = 1
    /\ isGlobalLoading(Get)

(* ---------------------------- C37 -------------------------------------- *)

\* The part of the global counter that no local counter accounts for.
C37_Unkeyed(s) == s.loadingCount - SumOf(s.localCounters)

C37_Step ==
    /\ IsUnkeyedStart(lastCall') =>
           /\ loadingCount' = loadingCount + 1
           /\ localCounters' = localCounters
    /\ C37_Unkeyed(Get') =
           C37_Unkeyed(Get) + (IF IsUnkeyedStart(lastCall') THEN 1 ELSE 0)

C37_Floor ==
    /\ history # Lost => C37_Unkeyed(Get) = UnkeyedStarts(history)
    /\ loadingCount >= C37_Unkeyed(Get)
    /\ (C37_Unkeyed(Get) > 0 /\ overrideState = Null) => isGlobalLoading(Get)

\* C37: a store startLoading made without an instance key, or with the
\* empty string, raises the global counter and no local counter.  No later
\* call lowers the global counter below the number of such starts made so
\* far, so from the first of them on the derived loading boolean is true
\* whenever no override is set.
C37_UnkeyedStartsStay == [][C37_Step]_vars /\ []C37_Floor

\* A start with the empty string as key outlives an unkeyed stop, a stop
\* with the empty string and a stop of A.
C37_Witness ==
    /\ history = <<Call("startLoading", Some(""), Null),
                   Call("stopLoading", Null, Null),
                   Call("stopLoading", Some(""), Null),
                   Call("stopLoading", Some("A"), Null)>>
    /\ loadingCount = 1
    /\ DOMAIN localCounters = {}
    /\ overrideState = Null
    /\ isGlobalLoading(Get)

(* ---------------------------- C38 -------------------------------------- *)

\* The handlers registered for the event name that call a store action.
C38_Callers(l, name) ==
    {l[name][i].handler : i \in DOMAIN l[name]} \cap ReentrantHandlers

C38_Step ==
    \A h \in ReentrantHandlers :
        (/\ lastCall'.op \in StoreOps
         /\ Len(emitted') > 0
         /\ emitted'[1].name \in {"start", "stop"}
         /\ h \in C38_Callers(listeners, emitted'[1].name))
        =>
        LET boundary == emitted'[1]
            nested == Run(boundary.at, NestedCall(h))
            n == Len(emitted')
        IN  /\ boundary.at = Run(Get, lastCall').state
            /\ isLoading(boundary.at) # isLoading(Get)
            /\ n = Len(nested.emitted) + 2
            /\ SubSeq(emitted', 2, n - 1) = nested.emitted
            /\ CountOf(nested.emitted, boundary.name) = 0
            /\ emitted'[n].name = "change"
            /\ emitted'[n].payload[1].isLoading = isLoading(boundary.at)
            /\ emitted'[n].at = nested.state
            /\ Get' = nested.state

\* C38: re-entrant listeners.  A store action updates the store before it
\* emits and reads the derived boolean once, before it emits `start` or
\* `stop`.  When a listener of that event calls a store action, the events
\* of the nested call are emitted before the `change` of the outer call, and
\* that `change` carries the isLoading value read before the nested call,
\* whatever isGlobalLoading() is when it is delivered.
C38_StalePayload == [][C38_Step]_vars

\* A `start` listener stops A: the `change` of A's start says loading while
\* the store is not loading any more.
C38_Witness ==
    /\ lastCall = Call("startLoading", Some("A"), Null)
    /\ Names(emitted) = <<"start", "stop", "change", "change">>
    /\ emitted[4].payload = ChangePayload(TRUE, FALSE)
    /\ emitted[3].payload = ChangePayload(FALSE, FALSE)
    /\ ~isGlobalLoading(Get)
    /\ loadingCount = 0

(* ---------------------------- C39 -------------------------------------- *)

C39_ByComponent == lastCall'.op \in {"render", "unmount", "cleanup", "effect"}

C39_Step ==
    C39_ByComponent =>
        /\ \A k \in InstanceIds \ {LoadingId} :
               getLocalCounter(Get', k) = getLocalCounter(Get, k)
        /\ loadingCount' - loadingCount =
               getLocalCounter(Get', LoadingId) - getLocalCounter(Get, LoadingId)

C39_Own ==
    /\ component.phase = "idle" =>
           getLocalCounter(Get, LoadingId) = (IF component.isLoading THEN 1 ELSE 0)
    /\ component.phase = "gone" =>
           /\ getLocalCounter(Get, LoadingId) = 0
           /\ loadingCount = SumOf(localCounters)
    /\ getLocalCounter(Get, LoadingId) \in {0, 1}

\* C39: Loading component.  Across any sequence of changes of the isLoading
\* prop followed by unmount, after each effect run the local counter of the
\* component's own instance is 1 when the current prop is true and 0 when it
\* is false, and after unmount it is 0: the component leaves no outstanding
\* start behind, and none of its steps lowers the counter of another
\* instance.
C39_LoadingComponent == [][C39_Step]_vars /\ []C39_Own

\* Mounted with isLoading true, rendered again with false while B is
\* loading, and unmounted: A's start is undone and B's is still counted.
C39_Witness ==
    /\ component = [phase |-> "gone", isLoading |-> FALSE, captured |-> FALSE]
    /\ history = <<Call("startLoading", Some("A"), Null),
                   Call("startLoading", Some("B"), Null),
                   Call("stopLoading", Some("A"), Null)>>
    /\ getLocalCounter(Get, "B") = 1
    /\ loadingCount = 1

====
